---- MODULE Spec2Model ----
\* Episode segmentation and frame storage of w24h.
\*
\* Two writers share the MongoDB database "w24h" (collections `episodes` and
\* `frames`): the FastAPI backend, whose segmenter groups screenshots into
\* episodes by app_name, and the Express backend, whose POST /api/frames links
\* a frame to an episode named by the caller.  Ids are uuids in the source;
\* here an episode id is the position of the document in the collection and a
\* frame id is a small positive number.
EXTENDS Integers, Sequences, FiniteSets, TLC

\* ---------------------------------------------------------------------------
\* Bounds and input sets
\* ---------------------------------------------------------------------------

\* Number of frame documents the model stores before it stops creating frames.
MaxFrames == 3

\* Number of episode documents POST /api/episodes stores before the model
\* stops creating episodes.
MaxEpisodes == 2

\* Number of app-change notifications a source sends before the model stops
\* sending them.
MaxActivity == 1

\* Number of close-source calls before the model stops closing sources.
MaxCloses == 1

\* Largest number of ranked candidates handed to one rerank call.
MaxRanked == 22

\* Largest final_limit of a rerank call.
MaxLimit == 11

\* Largest number of episodes with an embedding in the collection of a query.
MaxCorpusEpisodes == 52

\* Largest number of frames with an embedding in the collection of a query.
MaxCorpusFrames == 32

\* Largest number of episodes in the collection POST /api/query searches.
MaxQueryCorpus == 3

\* Largest number of ranked episodes handed to the Context Assembler.
MaxContextEpisodes == 6

\* Largest number of ranked frames handed to the Context Assembler.
MaxContextFrames == 3

\* Largest number of collectAndSend calls of the tracker under way at once.
MaxTrackerCalls == 2

\* Number of capture requests the renderer handles.
MaxCaptures == 2

\* Largest number of connectDB and closeDB calls under way at once.
MaxDbCalls == 2

\* Largest number of MongoClient objects created.
MaxClients == 3

\* Largest number of candidates in one rank call.
MaxCandidates == 3

\* Largest absolute value of a component of an embedding vector.
MaxComponent == 1

\* Tracked sources (Electron clients posting to the backend).
Sources == {"s1", "s2"}

FirstSource == "s1"

\* Grouping keys (application names) an event may carry.
Keys == {"Chrome", "Editor"}

\* Timestamps an event may carry (milliseconds in the source).
Timestamps == {0, 10, 20}

\* ---------------------------------------------------------------------------
\* Values
\* ---------------------------------------------------------------------------

\* current_episode_id when no episode is open (None in the backend).
NoEpisode == 0

\* last_app_name before any event was seen, and the app_name of a frame
\* document written by POST /api/frames, which has no such field.
NoAppName == "none"

\* last_ts of a source before its first event.
NoTs == -1

\* A null end_ts.
Null == -2

FrameIds == 1..(MaxFrames + 1)

\* Request bodies of POST /api/frames: the episode named (stored or not), and
\* the optional frame_id (0 when absent, otherwise an id that may be taken).
EpisodeIdInputs == 1..2

FrameIdInputs == 0..1

\* Request bodies of POST /api/episodes: the optional episode_id (0 when
\* absent), and the optional frame_ids.
EpisodeIdOptions == 0..1

FrameIdsInputs == {<<>>, <<1>>}

\* The database call of a handler that rejects, if one does.
DbErrors == {"none", "insertOne", "updateOne"}

Range(s) == {s[i] : i \in 1..Len(s)}

\* Request slots of the backend: two requests may be in the handler at once.
Slots == {"r1", "r2"}

\* A slot with no request in it.
Idle == [pc |-> "idle"]

\* ---------------------------------------------------------------------------
\* State
\* ---------------------------------------------------------------------------

VARIABLES
    episodes,            \* the episodes collection, in insertion order
    frames,              \* the frames collection, in insertion order
    last_app_name,       \* process-wide: app_name of the current episode
    current_episode_id,  \* process-wide: id of the open episode, or NoEpisode
    last_ts,             \* per source: timestamp of its last accepted event
    last_call,           \* the last call: what was asked and what was answered
    status,              \* history: per episode "open", "key-change" or "close-source"
    owner,               \* history: per episode the source whose event created it
    log,                 \* history: per source the calls that were applied, in order
    inflight,            \* per request slot: an observe request on its way through the handler
    lock,                \* the sources whose exclusive section is taken
    retrieval,           \* the last call of the retrieval pipeline: its input and output
    tracker,             \* the ActivityTracker object: isCollecting, activityHistory
    collecting,          \* per call of collectAndSend: where the call is
    collected,           \* history: what the last collectActivity that returned gave back
    front_app,           \* the application in front on the client's screen
    server_app_name,     \* the appName of the last POST the activity endpoint received
    capturing,           \* per capture request: where onCapture is
    ipc_messages,        \* history: the messages the renderer sent to the main process
    mongo,               \* db.ts: the module variables client and db
    clients,             \* per MongoClient that was created: its connection state
    connecting,          \* per call of connectDB or closeDB: where the call is
    received             \* history: the Db instances connectDB returned since the last close

\* The activity tracker of the Electron client and its surroundings.
trackerVars == <<tracker, collecting, collected, front_app, server_app_name>>

\* The capture handler of the Electron client.
captureVars == <<capturing, ipc_messages>>

\* The database connection of the Express backend.
connectionVars == <<mongo, clients, connecting, received>>

\* The state of the Electron client and of the backend's connection.
clientVars == <<trackerVars, captureVars, connectionVars>>

vars == <<episodes, frames, last_app_name, current_episode_id, last_ts,
          last_call, status, owner, log, inflight, lock, retrieval, clientVars>>

\* What the segmenter calls and the routes leave alone.
otherVars == <<inflight, lock, retrieval, clientVars>>

\* ---------------------------------------------------------------------------
\* Documents
\* ---------------------------------------------------------------------------

\* A frame document as it is inserted: its image_embedding is null.
Frame(frame_id, episode_id, ts, app_name) ==
    [frame_id |-> frame_id, episode_id |-> episode_id, ts |-> ts,
     app_name |-> app_name, image_embedding |-> "null"]

\* Variant of NewEpisode: end_ts stays null until the episode is closed.
NewEpisodeNullEnd(episode_id, grouping_key, timestamp, frame_id) ==
    [episode_id  |-> episode_id,
     app_name    |-> grouping_key,
     frame_ids   |-> <<frame_id>>,
     start_ts    |-> timestamp,
     end_ts      |-> Null,
     frame_count |-> 1]

\* Step 1 of observe: a new episode holding its first frame.  end_ts is the
\* running "last seen" value from the start.
NewEpisode(episode_id, grouping_key, timestamp, frame_id) ==
    [episode_id  |-> episode_id,
     app_name    |-> grouping_key,
     frame_ids   |-> <<frame_id>>,
     start_ts    |-> timestamp,
     end_ts      |-> timestamp,
     frame_count |-> 1]

\* The episode an app-change notification opens: it has no frame yet.
EmptyEpisode(episode_id, grouping_key, timestamp) ==
    [episode_id  |-> episode_id,
     app_name    |-> grouping_key,
     frame_ids   |-> <<>>,
     start_ts    |-> timestamp,
     end_ts      |-> timestamp,
     frame_count |-> 0]

\* Step 2 of observe: the open episode takes one more frame.
ExtendEpisode(e, timestamp, frame_id) ==
    [e EXCEPT !.frame_ids   = Append(@, frame_id),
              !.frame_count = @ + 1,
              !.end_ts      = timestamp]

\* Variant of CloseEpisode: end_ts becomes the timestamp of the event that
\* causes the close.
CloseEpisodeAtEvent(e, timestamp) == [e EXCEPT !.end_ts = timestamp]

\* Closing freezes end_ts at the episode's last observed timestamp; the
\* timestamp of the event that causes the close is not used.
CloseEpisode(e, timestamp) == e

\* Variant of KeyMatches: no event matches.
KeyMatchesNever(current_app_name, grouping_key) == FALSE

\* Variant of KeyMatches: any event matches once an episode is current.
KeyMatchesAnyApp(current_app_name, grouping_key) == current_app_name # NoAppName

\* "check if app_name matches current episode's app_name"
KeyMatches(current_app_name, grouping_key) == current_app_name = grouping_key

\* MongoDB $addToSet on an array field.
AddToSet(arr, x) == IF x \in Range(arr) THEN arr ELSE Append(arr, x)

\* findOne({ episode_id }) on the episodes collection: the matching positions.
FindEpisode(eps, episode_id) == {i \in 1..Len(eps) : eps[i].episode_id = episode_id}

\* findOne({ frame_id }) on the frames collection: the matching positions.
FindFrame(frs, frame_id) == {i \in 1..Len(frs) : frs[i].frame_id = frame_id}

\* uuidv4(): an id no stored frame has.
FreshFrameId(frs) ==
    CHOOSE f \in FrameIds :
        /\ FindFrame(frs, f) = {}
        /\ \A g \in FrameIds : FindFrame(frs, g) = {} => f <= g

\* ---------------------------------------------------------------------------
\* Episode Segmenter
\* ---------------------------------------------------------------------------
\* The backend keeps the open episode and its key in the two process-wide
\* variables current_episode_id and last_app_name, whatever source an event
\* comes from; last_ts is kept per source.  The segmenter works on a state
\* st with the fields episodes, current_episode_id, last_app_name and status.

\* Close the open episode: `how` is "key-change" or "close-source".
CloseCurrent(st, timestamp, how) ==
    LET cur == st.current_episode_id
    IN  [episodes           |-> [st.episodes EXCEPT
                                   ![cur] = CloseEpisode(@, timestamp)],
         current_episode_id |-> NoEpisode,
         last_app_name      |-> NoAppName,
         status             |-> [st.status EXCEPT ![cur] = how]]

\* Open a new episode with its first frame.
OpenNew(st, timestamp, grouping_key, frame_id) ==
    LET newId == Len(st.episodes) + 1
    IN  [episodes           |-> Append(st.episodes,
                                  NewEpisode(newId, grouping_key, timestamp, frame_id)),
         current_episode_id |-> newId,
         last_app_name      |-> grouping_key,
         status             |-> Append(st.status, "open")]

\* Variant of ObserveStep: a key change opens the new episode and leaves the
\* old one as it is.
ObserveStepNoClose(st, timestamp, grouping_key, frame_id) ==
    LET cur == st.current_episode_id
    IN  IF cur = NoEpisode
        THEN OpenNew(st, timestamp, grouping_key, frame_id)
        ELSE IF KeyMatches(st.last_app_name, grouping_key)
        THEN [st EXCEPT !.episodes[cur] = ExtendEpisode(@, timestamp, frame_id)]
        ELSE OpenNew(st, timestamp, grouping_key, frame_id)

\* Steps 1 to 3 of observe.
ObserveStep(st, timestamp, grouping_key, frame_id) ==
    LET cur == st.current_episode_id
    IN  IF cur = NoEpisode
        THEN OpenNew(st, timestamp, grouping_key, frame_id)
        ELSE IF KeyMatches(st.last_app_name, grouping_key)
        THEN [st EXCEPT !.episodes[cur] = ExtendEpisode(@, timestamp, frame_id)]
        ELSE OpenNew(CloseCurrent(st, timestamp, "key-change"),
                     timestamp, grouping_key, frame_id)

\* Open a new episode that has no frame yet.
OpenEmpty(st, timestamp, grouping_key) ==
    LET newId == Len(st.episodes) + 1
    IN  [episodes           |-> Append(st.episodes,
                                  EmptyEpisode(newId, grouping_key, timestamp)),
         current_episode_id |-> newId,
         last_app_name      |-> grouping_key,
         status             |-> Append(st.status, "open")]

\* POST /api/activity: "Checks if app_name changed.  If changed: closes
\* previous episode, creates new episode."
ActivityStep(st, timestamp, app_name) ==
    IF KeyMatches(st.last_app_name, app_name)
    THEN st
    ELSE IF st.current_episode_id = NoEpisode
    THEN OpenEmpty(st, timestamp, app_name)
    ELSE OpenEmpty(CloseCurrent(st, timestamp, "key-change"), timestamp, app_name)

\* Variant of CloseStep: the episode is closed and stays the current one.
CloseStepKeepCurrent(st) ==
    IF st.current_episode_id = NoEpisode
    THEN st
    ELSE [CloseCurrent(st, st.episodes[st.current_episode_id].end_ts, "close-source")
             EXCEPT !.current_episode_id = st.current_episode_id,
                    !.last_app_name = st.last_app_name]

\* The explicit close-source operation.
CloseStep(st) ==
    IF st.current_episode_id = NoEpisode
    THEN st
    ELSE CloseCurrent(st, st.episodes[st.current_episode_id].end_ts, "close-source")

SegState ==
    [episodes           |-> episodes,
     current_episode_id |-> current_episode_id,
     last_app_name      |-> last_app_name,
     status             |-> status]

\* What a call asked and answered.  `target` is the source of a segmenter
\* call and the episode named by a POST /api/frames body.
Call(op, target, ts, result, episode_id, frame_id) ==
    [op |-> op, target |-> target, ts |-> ts, result |-> result,
     episode_id |-> episode_id, frame_id |-> frame_id]

\* observe(source_id, timestamp, grouping_key, frame_id) -> episode_id
observe(source_id, timestamp, grouping_key, frame_id) ==
    /\ Len(frames) < MaxFrames
    /\ FindFrame(frames, frame_id) = {}
    /\ UNCHANGED otherVars
    /\ IF timestamp < last_ts[source_id]
       THEN /\ last_call' = Call("observe", source_id, timestamp,
                                 "OutOfOrderEvent", NoEpisode, frame_id)
            /\ UNCHANGED <<episodes, frames, last_app_name, current_episode_id,
                           last_ts, status, owner, log>>
       ELSE LET st == ObserveStep(SegState, timestamp, grouping_key, frame_id)
            IN  /\ episodes' = st.episodes
                /\ current_episode_id' = st.current_episode_id
                /\ last_app_name' = st.last_app_name
                /\ status' = st.status
                /\ frames' = Append(frames, Frame(frame_id, st.current_episode_id,
                                                  timestamp, grouping_key))
                /\ last_ts' = [last_ts EXCEPT ![source_id] = timestamp]
                /\ owner' = IF Len(st.episodes) > Len(episodes)
                            THEN Append(owner, source_id) ELSE owner
                /\ log' = [log EXCEPT ![source_id] =
                             Append(@, [op |-> "observe", ts |-> timestamp,
                                        key |-> grouping_key, frame_id |-> frame_id])]
                /\ last_call' = Call("observe", source_id, timestamp, "ok",
                                     st.current_episode_id, frame_id)

\* The close-source calls that were applied.
Closed == {i \in 1..Len(status) : status[i] = "close-source"}

\* close_source(source_id): the tracked source disconnects.
closeSource(source_id) ==
    LET st == CloseStep(SegState)
    IN  /\ current_episode_id # NoEpisode
        /\ Cardinality(Closed) < MaxCloses
        /\ episodes' = st.episodes
        /\ current_episode_id' = st.current_episode_id
        /\ last_app_name' = st.last_app_name
        /\ status' = st.status
        /\ log' = [log EXCEPT ![source_id] = Append(@, [op |-> "close"])]
        /\ last_call' = Call("close", source_id, NoTs, "ok", current_episode_id, 0)
        /\ UNCHANGED <<frames, last_ts, owner>>
        /\ UNCHANGED otherVars

\* The app-change notifications a source has sent.
Notified(source_id) == SelectSeq(log[source_id], LAMBDA c : c.op = "activity")

\* POST /api/activity {appName}: the activity tracker of a source reports the
\* application now in front.  The answer is the current episode_id.
activity(source_id, timestamp, app_name) ==
    LET st == ActivityStep(SegState, timestamp, app_name)
    IN  /\ Len(Notified(source_id)) < MaxActivity
        /\ timestamp >= last_ts[source_id]
        /\ episodes' = st.episodes
        /\ current_episode_id' = st.current_episode_id
        /\ last_app_name' = st.last_app_name
        /\ status' = st.status
        /\ last_ts' = [last_ts EXCEPT ![source_id] = timestamp]
        /\ owner' = IF Len(st.episodes) > Len(episodes)
                    THEN Append(owner, source_id) ELSE owner
        /\ log' = [log EXCEPT ![source_id] =
                     Append(@, [op |-> "activity", ts |-> timestamp, key |-> app_name])]
        /\ last_call' = Call("activity", source_id, timestamp, "ok",
                             st.current_episode_id, 0)
        /\ UNCHANGED frames
        /\ UNCHANGED otherVars

\* ---------------------------------------------------------------------------
\* POST /api/frames
\* ---------------------------------------------------------------------------

\* input_frame_id = 0 stands for a body without frame_id.  db_error names the
\* database call that rejects, if one does: the handler's catch answers 500
\* and undoes nothing.
createFrame(input_episode_id, input_frame_id, input_ts, db_error) ==
    /\ Len(frames) < MaxFrames
    /\ IF FindEpisode(episodes, input_episode_id) = {}
       THEN /\ last_call' = Call("createFrame", input_episode_id, input_ts, "404",
                                 input_episode_id, input_frame_id)
            /\ UNCHANGED <<episodes, frames>>
       ELSE LET frame_id == IF input_frame_id # 0 THEN input_frame_id
                            ELSE FreshFrameId(frames)
                i == CHOOSE j \in FindEpisode(episodes, input_episode_id) : TRUE
            IN  IF FindFrame(frames, frame_id) # {}
                THEN /\ last_call' = Call("createFrame", input_episode_id, input_ts,
                                          "409", input_episode_id, frame_id)
                     /\ UNCHANGED <<episodes, frames>>
                ELSE IF db_error = "insertOne"
                THEN /\ last_call' = Call("createFrame", input_episode_id, input_ts,
                                          "500", input_episode_id, frame_id)
                     /\ UNCHANGED <<episodes, frames>>
                ELSE IF db_error = "updateOne"
                THEN /\ frames' = Append(frames, Frame(frame_id, input_episode_id,
                                                       input_ts, NoAppName))
                     /\ last_call' = Call("createFrame", input_episode_id, input_ts,
                                          "500", input_episode_id, frame_id)
                     /\ UNCHANGED episodes
                ELSE /\ frames' = Append(frames, Frame(frame_id, input_episode_id,
                                                       input_ts, NoAppName))
                     /\ episodes' = [episodes EXCEPT
                                       ![i].frame_ids = AddToSet(@, frame_id)]
                     /\ last_call' = Call("createFrame", input_episode_id, input_ts,
                                          "201", input_episode_id, frame_id)
    /\ UNCHANGED <<last_app_name, current_episode_id, last_ts, status, owner, log>>
    /\ UNCHANGED otherVars

\* ---------------------------------------------------------------------------
\* POST /api/episodes
\* ---------------------------------------------------------------------------

\* uuidv4(): an id no stored episode has.
FreshEpisodeId(eps) ==
    CHOOSE e \in 1..(Len(eps) + 1) :
        /\ FindEpisode(eps, e) = {}
        /\ \A g \in 1..(Len(eps) + 1) : FindEpisode(eps, g) = {} => e <= g

\* The episode document of the route.  It has no app_name and no frame_count.
PostedEpisode(episode_id, start_ts, end_ts, frame_ids, text_embedding) ==
    [episode_id     |-> episode_id,
     app_name       |-> NoAppName,
     frame_ids      |-> frame_ids,
     start_ts       |-> start_ts,
     end_ts         |-> end_ts,
     frame_count    |-> Null,
     text_embedding |-> text_embedding]

\* input_episode_id = 0 stands for a body without episode_id.  embed_ok tells
\* whether embedText resolves; db_error names the database call that rejects.
createEpisode(input_episode_id, start_ts, end_ts, input_frame_ids, embed_ok, db_error) ==
    LET episode_id == IF input_episode_id # 0 THEN input_episode_id
                      ELSE FreshEpisodeId(episodes)
        text_embedding == IF embed_ok THEN "vector" ELSE "null"
    IN  /\ Len(episodes) < MaxEpisodes
        /\ IF FindEpisode(episodes, episode_id) # {}
           THEN /\ last_call' = Call("createEpisode", episode_id, start_ts,
                                     "409", episode_id, 0)
                /\ UNCHANGED <<episodes, status, owner>>
           ELSE IF db_error = "insertOne"
           THEN /\ last_call' = Call("createEpisode", episode_id, start_ts,
                                     "500", episode_id, 0)
                /\ UNCHANGED <<episodes, status, owner>>
           ELSE /\ episodes' = Append(episodes,
                                  PostedEpisode(episode_id, start_ts, end_ts,
                                                input_frame_ids, text_embedding))
                /\ status' = Append(status, "posted")
                /\ owner' = Append(owner, "none")
                /\ last_call' = Call("createEpisode", episode_id, start_ts,
                                     "201", episode_id, 0)
        /\ UNCHANGED <<frames, last_app_name, current_episode_id, last_ts, log>>
        /\ UNCHANGED otherVars

\* ---------------------------------------------------------------------------
\* Concurrent observe requests
\* ---------------------------------------------------------------------------
\* The request layer may have two observe requests in the handler at once.
\* A request arrives, enters the exclusive section of its source, where it
\* reads the segmentation state, and then writes and leaves the section.

\* Variant of LockFree: no exclusive section, a request enters at once.
LockFreeAlways(lk, source_id) == TRUE

\* The exclusive section of a source is free.
LockFree(lk, source_id) == source_id \notin lk

\* The requests that are in the handler.
Busy == {c \in Slots : inflight[c].pc # "idle"}

\* A request arrives.
observeArrive(c, source_id, timestamp, grouping_key) ==
    /\ inflight[c].pc = "idle"
    /\ Len(frames) + Cardinality(Busy) < MaxFrames
    /\ inflight' = [inflight EXCEPT ![c] =
                       [pc |-> "waiting", source_id |-> source_id,
                        timestamp |-> timestamp, grouping_key |-> grouping_key]]
    /\ UNCHANGED <<episodes, frames, last_app_name, current_episode_id, last_ts,
                   last_call, status, owner, log, lock, retrieval, clientVars>>

\* The request enters the exclusive section of its source and reads the
\* segmentation state.
observeEnter(c) ==
    LET r == inflight[c]
    IN  /\ r.pc = "waiting"
        /\ LockFree(lock, r.source_id)
        /\ lock' = lock \cup {r.source_id}
        /\ inflight' = [inflight EXCEPT ![c] =
                           [pc |-> "inside", source_id |-> r.source_id,
                            timestamp |-> r.timestamp,
                            grouping_key |-> r.grouping_key,
                            current_episode_id |-> current_episode_id,
                            last_app_name |-> last_app_name,
                            last_ts |-> last_ts[r.source_id]]]
        /\ UNCHANGED <<episodes, frames, last_app_name, current_episode_id, last_ts,
                       last_call, status, owner, log, retrieval, clientVars>>

\* The request writes what it decided on the state it read, leaves the
\* section and answers.
observeWrite(c) ==
    LET r        == inflight[c]
        frame_id == FreshFrameId(frames)
        read     == [SegState EXCEPT !.current_episode_id = r.current_episode_id,
                                     !.last_app_name = r.last_app_name]
    IN  /\ r.pc = "inside"
        /\ lock' = lock \ {r.source_id}
        /\ inflight' = [inflight EXCEPT ![c] = Idle]
        /\ UNCHANGED <<retrieval, clientVars>>
        /\ IF r.timestamp < r.last_ts
           THEN /\ last_call' = Call("observe", r.source_id, r.timestamp,
                                     "OutOfOrderEvent", NoEpisode, frame_id)
                /\ UNCHANGED <<episodes, frames, last_app_name, current_episode_id,
                               last_ts, status, owner, log>>
           ELSE LET st == ObserveStep(read, r.timestamp, r.grouping_key, frame_id)
                IN  /\ episodes' = st.episodes
                    /\ current_episode_id' = st.current_episode_id
                    /\ last_app_name' = st.last_app_name
                    /\ status' = st.status
                    /\ frames' = Append(frames, Frame(frame_id, st.current_episode_id,
                                                      r.timestamp, r.grouping_key))
                    /\ last_ts' = [last_ts EXCEPT ![r.source_id] = r.timestamp]
                    /\ owner' = IF Len(st.episodes) > Len(episodes)
                                THEN Append(owner, r.source_id) ELSE owner
                    /\ log' = [log EXCEPT ![r.source_id] =
                                 Append(@, [op |-> "observe", ts |-> r.timestamp,
                                            key |-> r.grouping_key,
                                            frame_id |-> frame_id])]
                    /\ last_call' = Call("observe", r.source_id, r.timestamp, "ok",
                                         st.current_episode_id, frame_id)

\* ---------------------------------------------------------------------------
\* Concurrent creation requests (Express backend)
\* ---------------------------------------------------------------------------
\* Each handler awaits its database calls one after the other, so another
\* request can run between the findOne that looks for the id and the
\* insertOne that stores the document.  The collections have no unique index.

\* The ids held by the requests of one route that are between their findOne
\* and their insertOne.
IdsInFlight(kind) == {inflight[c].id : c \in {b \in Busy : inflight[b].kind = kind}}

\* uuidv4(): an id that no stored document and no other request has.
FreshId(stored, kind) ==
    LET used == stored \cup IdsInFlight(kind)
    IN  CHOOSE e \in 1..(Cardinality(used) + 1) :
            e \notin used /\ \A g \in 1..(Cardinality(used) + 1) : g \notin used => e <= g

\* Variant of FindStored: the lookup also sees the documents that requests in
\* flight are about to insert, as a unique index on the id would.
FindStoredOrInFlight(stored, kind, id) == id \in stored \cup IdsInFlight(kind)

\* collection.findOne({ id }) finds a document.
FindStored(stored, kind, id) == id \in stored

\* POST /api/episodes up to its findOne: 409 if the id is stored, otherwise
\* the request goes on to embedText.
postEpisodeFind(c, input_episode_id, embed_ok) ==
    LET stored     == {episodes[i].episode_id : i \in 1..Len(episodes)}
        episode_id == IF input_episode_id # 0 THEN input_episode_id
                      ELSE FreshId(stored, "episode")
    IN  /\ inflight[c].pc = "idle"
        /\ Len(episodes) + Cardinality({b \in Busy : inflight[b].kind = "episode"})
              < MaxEpisodes
        /\ IF FindStored(stored, "episode", episode_id)
           THEN /\ last_call' = Call("createEpisode", episode_id, 10, "409", episode_id, 0)
                /\ UNCHANGED inflight
           ELSE /\ inflight' = [inflight EXCEPT ![c] =
                                  [pc |-> "found none", kind |-> "episode",
                                   id |-> episode_id, episode_id |-> episode_id,
                                   embed_ok |-> embed_ok]]
                /\ UNCHANGED last_call
        /\ UNCHANGED <<episodes, frames, last_app_name, current_episode_id, last_ts,
                       status, owner, log, lock, retrieval, clientVars>>

\* Variant of EmbeddingErrorPropagates: the error of embedText is not caught
\* where it is raised and reaches the catch of the handler.
EmbeddingErrorUncaught(embed_ok) == ~embed_ok

\* Whether an error of embedText ends the handler: it is caught and logged,
\* "Continue without embedding - can be added later".
EmbeddingErrorPropagates(embed_ok) == FALSE

\* POST /api/episodes from embedText on: the document is inserted.
postEpisodeInsert(c) ==
    LET r == inflight[c]
    IN  /\ r.pc = "found none"
        /\ r.kind = "episode"
        /\ IF EmbeddingErrorPropagates(r.embed_ok)
           THEN /\ last_call' = Call("createEpisode", r.id, 10, "500", r.id, 0)
                /\ UNCHANGED <<episodes, status, owner>>
           ELSE /\ episodes' = Append(episodes,
                                      PostedEpisode(r.id, 10, 20, <<>>,
                                                    IF r.embed_ok THEN "vector" ELSE "null"))
                /\ status' = Append(status, "posted")
                /\ owner' = Append(owner, "none")
                /\ last_call' = Call("createEpisode", r.id, 10, "201", r.id, 0)
        /\ inflight' = [inflight EXCEPT ![c] = Idle]
        /\ UNCHANGED <<frames, last_app_name, current_episode_id, last_ts, log, lock,
                       retrieval, clientVars>>

\* POST /api/frames up to its second findOne: 404 if the episode is not
\* stored, 409 if the frame id is.
postFrameFind(c, input_episode_id, input_frame_id) ==
    LET stored   == {frames[i].frame_id : i \in 1..Len(frames)}
        frame_id == IF input_frame_id # 0 THEN input_frame_id
                    ELSE FreshId(stored, "frame")
    IN  /\ inflight[c].pc = "idle"
        /\ Len(frames) + Cardinality({b \in Busy : inflight[b].kind = "frame"}) < MaxFrames
        /\ IF FindEpisode(episodes, input_episode_id) = {}
           THEN /\ last_call' = Call("createFrame", input_episode_id, 10, "404",
                                     input_episode_id, input_frame_id)
                /\ UNCHANGED inflight
           ELSE IF FindStored(stored, "frame", frame_id)
           THEN /\ last_call' = Call("createFrame", input_episode_id, 10, "409",
                                     input_episode_id, frame_id)
                /\ UNCHANGED inflight
           ELSE /\ inflight' = [inflight EXCEPT ![c] =
                                  [pc |-> "found none", kind |-> "frame",
                                   id |-> frame_id, episode_id |-> input_episode_id,
                                   embed_ok |-> FALSE]]
                /\ UNCHANGED last_call
        /\ UNCHANGED <<episodes, frames, last_app_name, current_episode_id, last_ts,
                       status, owner, log, lock, retrieval, clientVars>>

\* POST /api/frames from insertOne on: the frame is inserted and updateOne
\* adds its id to the frame_ids of the first stored episode with the
\* episode_id.
postFrameInsert(c) ==
    LET r == inflight[c]
    IN  /\ r.pc = "found none"
        /\ r.kind = "frame"
        /\ frames' = Append(frames, Frame(r.id, r.episode_id, 10, NoAppName))
        /\ episodes' = [i \in 1..Len(episodes) |->
                           IF i = (CHOOSE j \in FindEpisode(episodes, r.episode_id) :
                                     \A k \in FindEpisode(episodes, r.episode_id) : j <= k)
                           THEN [episodes[i] EXCEPT !.frame_ids = AddToSet(@, r.id)]
                           ELSE episodes[i]]
        /\ last_call' = Call("createFrame", r.episode_id, 10, "201", r.episode_id, r.id)
        /\ inflight' = [inflight EXCEPT ![c] = Idle]
        /\ UNCHANGED <<last_app_name, current_episode_id, last_ts, status, owner, log,
                       lock, retrieval, clientVars>>

\* ---------------------------------------------------------------------------
\* Similarity Ranker
\* ---------------------------------------------------------------------------
\* Embedding vectors have integer components here.  A similarity score s is
\* kept exactly, as its sign and its square: s = sgn * sqrt(num / den), with
\* num / den in lowest terms.  Rounding of floating-point numbers is not
\* modelled.

\* Dimensionality of the embedding vectors.
Dim == 2

Vectors == [1..Dim -> (-MaxComponent)..MaxComponent]

Negate(v) == [i \in DOMAIN v |-> -v[i]]

RECURSIVE DotTo(_, _, _)
DotTo(a, b, n) == IF n = 0 THEN 0 ELSE DotTo(a, b, n - 1) + a[n] * b[n]

\* dot(a, b)
Dot(a, b) == DotTo(a, b, Len(a))

RECURSIVE GCD(_, _)
GCD(x, y) == IF y = 0 THEN x ELSE GCD(y, x % y)

Sign(x) == IF x > 0 THEN 1 ELSE IF x < 0 THEN -1 ELSE 0

\* The score 0.
ZeroScore == [sgn |-> 0, num |-> 0, den |-> 1]

\* What a division by a zero magnitude gives.
ZeroDivisionError == [raised |-> "ZeroDivisionError"]

\* Variant of CosineSimilarity: no guard, a zero magnitude is divided by.
CosineSimilarityNoGuard(a, b) ==
    LET d   == Dot(a, b)
        mag == Dot(a, a) * Dot(b, b)
    IN  IF mag = 0
        THEN ZeroDivisionError
        ELSE [sgn |-> Sign(d),
              num |-> (d * d) \div GCD(d * d, mag),
              den |-> mag \div GCD(d * d, mag)]

\* score = dot(q, c) / (||q|| * ||c||), and 0 if either vector has zero
\* magnitude.
CosineSimilarity(a, b) ==
    LET d   == Dot(a, b)
        mag == Dot(a, a) * Dot(b, b)
    IN  IF Dot(a, a) = 0 \/ Dot(b, b) = 0
        THEN ZeroScore
        ELSE [sgn |-> Sign(d),
              num |-> (d * d) \div GCD(d * d, mag),
              den |-> mag \div GCD(d * d, mag)]

\* What the retrieval calls leave alone.
storeVars == <<episodes, frames, last_app_name, current_episode_id, last_ts,
               last_call, status, owner, log, inflight, lock, clientVars>>

\* A requested call of cosine_similarity(a, b).
SimilarityCalls ==
    {[op |-> "cosine_similarity", done |-> FALSE, a |-> a, b |-> b] :
        a \in Vectors, b \in Vectors}

\* cosine_similarity(a, b) runs.
cosineSimilarity ==
    /\ retrieval.op = "cosine_similarity"
    /\ ~retrieval.done
    /\ retrieval' = [op |-> "cosine_similarity", done |-> TRUE,
                     a |-> retrieval.a, b |-> retrieval.b,
                     score |-> CosineSimilarity(retrieval.a, retrieval.b)]
    /\ UNCHANGED storeVars

\* s > t for two scores.
ScoreGreater(s, t) ==
    IF s.sgn # t.sgn THEN s.sgn > t.sgn
    ELSE IF s.sgn = 0 THEN FALSE
    ELSE IF s.sgn = 1 THEN s.num * t.den > t.num * s.den
    ELSE s.num * t.den < t.num * s.den

\* Variant of Before: the score alone decides, ties stay in input order.
BeforeNoTieBreak(x, y) == ScoreGreater(x.score, y.score)

\* x sorts before y: higher score first, and among equal scores the more
\* recent timestamp first.
Before(x, y) ==
    \/ ScoreGreater(x.score, y.score)
    \/ x.score = y.score /\ x.candidate.ts > y.candidate.ts

\* x put into a sorted list, after the entries it does not sort before.
RECURSIVE Insert(_, _)
Insert(sorted, x) ==
    IF sorted = <<>> THEN <<x>>
    ELSE IF Before(x, Head(sorted)) THEN <<x>> \o sorted
    ELSE <<Head(sorted)>> \o Insert(Tail(sorted), x)

\* The first n entries of a list, sorted (a stable sort).
RECURSIVE SortTo(_, _)
SortTo(list, n) ==
    IF n = 0 THEN <<>>
    ELSE CHOOSE r \in {Insert(sorted, list[n]) : sorted \in {SortTo(list, n - 1)}} : TRUE

\* rank(query_vector, candidates) -> ordered list of (candidate, score)
Rank(query_vector, candidates) ==
    LET scored == [i \in 1..Len(candidates) |->
                      [candidate |-> candidates[i],
                       score |-> CosineSimilarity(query_vector, candidates[i].embedding)]]
    IN  SortTo(scored, Len(scored))

\* Query vectors and stored embeddings of the rank calls.
QueryVectors == {<<1, 0>>, <<0, 1>>}

StoredEmbeddings == {<<1, 0>>, <<1, 1>>, <<0, 0>>, <<-1, 0>>}

\* Candidate lists: candidate i of a list has id i.
CandidateLists ==
    UNION {[1..n -> [embedding : StoredEmbeddings, ts : Timestamps \ {0}]] :
              n \in 0..MaxCandidates}

WithIds(list) ==
    [i \in 1..Len(list) |->
        [id |-> i, embedding |-> list[i].embedding, ts |-> list[i].ts]]

\* A requested call of rank(query_vector, candidates).
RankCalls ==
    {[op |-> "rank", done |-> FALSE, query_vector |-> q, candidates |-> WithIds(l)] :
        q \in QueryVectors, l \in CandidateLists}

\* rank(query_vector, candidates) runs.
rank ==
    /\ retrieval.op = "rank"
    /\ ~retrieval.done
    /\ retrieval' = [op |-> "rank", done |-> TRUE,
                     query_vector |-> retrieval.query_vector,
                     candidates |-> retrieval.candidates,
                     output |-> Rank(retrieval.query_vector, retrieval.candidates)]
    /\ UNCHANGED storeVars

\* ---------------------------------------------------------------------------
\* Reranking Orchestrator
\* ---------------------------------------------------------------------------
\* A ranked candidate is named here by its id; the list <<1, 2, 3>> is the
\* similarity order A, B, C.

\* "rerank_candidates = min(limit * 2, 20)"
RerankMultiplier == 2

AbsoluteCap == 20

Min(x, y) == IF x <= y THEN x ELSE y

\* The first n entries of a list, or all of it if it is shorter.
Truncate(list, n) == SubSeq(list, 1, Min(n, Len(list)))

\* Variant of RerankCandidates: "top_episodes = episode_scores[:limit * 2]".
RerankCandidatesUncapped(final_limit) == final_limit * RerankMultiplier

\* The number of candidates to rerank.
RerankCandidates(final_limit) == Min(final_limit * RerankMultiplier, AbsoluteCap)

\* The textual document built for a candidate.
Document(candidate) == [text |-> candidate]

\* How the Reranking Capability behaves in one call: it fails in one of four
\* ways, or it answers.  An answer ranks the documents in the order they were
\* sent, in the opposite order, or with the last one first, and lists its
\* results by relevance descending or ascending; or it is an answer that names
\* a document that was not sent, or the same document in every result.
Failures == {"error", "timeout", "non-success status", "malformed response"}

Behaviours ==
    [kind : Failures]
        \cup [kind : {"ok"}, order : {"same", "opposite", "last first"},
              listing : {"descending", "ascending"}]
        \cup [kind : {"bad index", "same index"}]

\* The 0-based index of the document in place i of the capability's order.
IndexAt(order, i, m) ==
    IF order = "same" THEN i - 1
    ELSE IF order = "opposite" THEN m - i
    ELSE (i + m - 2) % m

\* rerank(query, documents, top_k) -> [(index, score)] of the capability.
Capability(behaviour, documents, top_k) ==
    LET m == Len(documents)
        k == Min(top_k, m)
    IN  IF behaviour.kind \in Failures
        THEN [failed |-> TRUE, results |-> <<>>]
        ELSE IF behaviour.kind = "bad index"
        THEN [failed |-> FALSE,
              results |-> [i \in 1..k |-> [index |-> m + i - 1,
                                            relevance_score |-> m - i + 1]]]
        ELSE IF behaviour.kind = "same index"
        THEN [failed |-> FALSE,
              results |-> [i \in 1..k |-> [index |-> 0, relevance_score |-> m - i + 1]]]
        ELSE LET best == [i \in 1..k |->
                            [index |-> IndexAt(behaviour.order, i, m),
                             relevance_score |-> m - i + 1]]
             IN  [failed |-> FALSE,
                  results |-> IF behaviour.listing = "descending" THEN best
                              ELSE [i \in 1..k |-> best[k - i + 1]]]

\* Every result names a document that was sent, and none is named twice.
WellFormed(results, m) ==
    /\ \A i \in 1..Len(results) : results[i].index \in 0..(m - 1)
    /\ \A i \in 1..Len(results), j \in 1..Len(results) :
          results[i].index = results[j].index => i = j

\* Variant of ByRelevance: the results are taken in the order they are listed.
ByRelevanceAsListed(results, n) == results

\* The first n results, sorted by relevance_score descending (a stable sort).
RECURSIVE ByRelevance(_, _)
ByRelevance(results, n) ==
    IF n = 0 THEN <<>>
    ELSE LET x == results[n]
             sorted == ByRelevance(results, n - 1)
             ahead == {i \in 1..Len(sorted) : sorted[i].relevance_score >= x.relevance_score}
         IN  SubSeq(sorted, 1, Cardinality(ahead)) \o <<x>>
                 \o SubSeq(sorted, Cardinality(ahead) + 1, Len(sorted))

\* Variant of Fallback: a failed reranking gives no result.
FallbackNothing(ranked_candidates, final_limit) == <<>>

\* The Similarity Ranker's order, truncated to final_limit.
Fallback(ranked_candidates, final_limit) == Truncate(ranked_candidates, final_limit)

\* rerank(query_text, ranked_candidates, final_limit) -> ordered list, with
\* what was sent to and received from the capability.
Rerank(ranked_candidates, final_limit, behaviour) ==
    LET sent      == Truncate(ranked_candidates, RerankCandidates(final_limit))
        documents == [i \in 1..Len(sent) |-> Document(sent[i])]
        response  == Capability(behaviour, documents, final_limit)
        reranked  == ~response.failed /\ WellFormed(response.results, Len(documents))
        sorted    == ByRelevance(response.results, Len(response.results))
    IN  [documents |-> documents,
         top_k     |-> final_limit,
         response  |-> response,
         reranked  |-> reranked,
         output    |-> IF reranked
                       THEN Truncate([i \in 1..Len(sorted) |-> sent[sorted[i].index + 1]],
                                     final_limit)
                       ELSE Fallback(ranked_candidates, final_limit)]

\* A requested call of rerank(query_text, ranked_candidates, final_limit), and
\* how the capability will behave.
RerankCalls ==
    {[op |-> "rerank", done |-> FALSE, ranked_candidates |-> [i \in 1..n |-> i],
      final_limit |-> l, behaviour |-> b] :
        n \in 0..MaxRanked, l \in 1..MaxLimit, b \in Behaviours}

\* rerank(query_text, ranked_candidates, final_limit) runs.
rerank ==
    LET r == Rerank(retrieval.ranked_candidates, retrieval.final_limit,
                    retrieval.behaviour)
    IN  /\ retrieval.op = "rerank"
        /\ ~retrieval.done
        /\ retrieval' = [op |-> "rerank", done |-> TRUE,
                         ranked_candidates |-> retrieval.ranked_candidates,
                         final_limit |-> retrieval.final_limit,
                         behaviour |-> retrieval.behaviour,
                         documents |-> r.documents,
                         top_k |-> r.top_k,
                         response |-> r.response,
                         reranked |-> r.reranked,
                         output |-> r.output]
        /\ UNCHANGED storeVars

\* ---------------------------------------------------------------------------
\* Candidate fetch and matching (llm_runner.py)
\* ---------------------------------------------------------------------------
\* An embedding vector is named here by its number of dimensions.

\* voyage-2: "Embedding Dimensions: 1024"
TextEmbeddingDimensions == 1024

\* voyage-multimodal-3: "Embedding Dimensions: 1536"
ImageEmbeddingDimensions == 1536

\* ".sort("start_ts", -1).limit(50)"
EpisodeFetchLimit == 50

\* ".sort("ts", -1).limit(30)"
FrameFetchLimit == 30

\* The query embedding: generate_text_embedding(user_query) with voyage-2.
QueryEmbedding == TextEmbeddingDimensions

\* Which documents of a collection have an embedding: every document, none,
\* or those whose embedding has been generated so far (every second one).
Embedded == {"all", "none", "some"}

HasEmbedding(embedded, i) == embedded = "all" \/ (embedded = "some" /\ i % 2 = 0)

\* The sizes of a collection that the model tries: empty, small, and around
\* the fetch limit up to the largest size.
CorpusSizes(limit, largest) == {n \in 0..largest : n <= 1 \/ n >= limit - 1}

\* The episodes collection with n documents, in insertion order.
EpisodeCorpus(n, embedded) ==
    [i \in 1..n |-> [episode_id |-> i, start_ts |-> 10 * i,
                     text_embedding |-> IF HasEmbedding(embedded, i)
                                        THEN TextEmbeddingDimensions ELSE Null]]

\* The frames collection with n documents, in insertion order; the upload of
\* the second screenshot failed, so it has no blob_url, and no embedding
\* either: the embedding of a frame is generated from its blob_url.
FrameCorpus(n, embedded) ==
    [i \in 1..n |-> [frame_id |-> i, ts |-> 10 * i,
                     image_embedding |-> IF HasEmbedding(embedded, i) /\ i # 2
                                         THEN ImageEmbeddingDimensions ELSE Null,
                     blob_url |-> IF i = 2 THEN Null ELSE i]]

\* A filter names the fields that must exist and not be null.
\* {"text_embedding": {"$exists": True, "$ne": None}}
EpisodeFilter == {"text_embedding"}

\* {"image_embedding": {"$exists": True, "$ne": None},
\*  "blob_url": {"$exists": True, "$ne": None}}
FrameFilter == {"image_embedding", "blob_url"}

\* The documents at the positions in keep, in the order of the list.
Select(docs, keep) ==
    LET F[n \in 0..Len(docs)] ==
            IF n = 0 THEN <<>>
            ELSE IF n \in keep THEN Append(F[n - 1], docs[n]) ELSE F[n - 1]
    IN  F[Len(docs)]

\* collection.find(filter): the matching documents in the collection's order.
Find(docs, filter) ==
    Select(docs, {i \in 1..Len(docs) : \A field \in filter : docs[i][field] # Null})

\* cursor.sort(field, -1): the documents with the greatest value first.
SortDescending(docs, field) ==
    LET before == [i \in 1..Len(docs) |->
                      Cardinality({j \in 1..Len(docs) :
                          docs[j][field] > docs[i][field]
                              \/ (docs[j][field] = docs[i][field] /\ j < i)})]
    IN  [p \in 1..Len(docs) |-> docs[CHOOSE i \in 1..Len(docs) : before[i] = p - 1]]

\* Variant of FindRecent: the query before the limits were added,
\* "list(collection.find({...}))".
FindRecentUnlimited(docs, filter, field, limit) == Find(docs, filter)

\* list(collection.find(filter, projection).sort(field, -1).limit(limit))
FindRecent(docs, filter, field, limit) ==
    Truncate(SortDescending(Find(docs, filter), field), limit)

\* Whether a read of a collection returns its documents or raises (a socket
\* timeout, for example).
ReadResults == {"ok", "fails"}

\* The episode fetch: an error of the read is raised to the caller.
FetchEpisodes(docs, read) ==
    IF read = "fails" THEN [raised |-> TRUE, docs |-> <<>>]
    ELSE [raised |-> FALSE,
          docs |-> FindRecent(docs, EpisodeFilter, "start_ts", EpisodeFetchLimit)]

\* Variant of FetchFrames: the frame fetch without its own try-catch, so that
\* an error of the read is raised to the caller.
FetchFramesUnguarded(docs, read) ==
    IF read = "fails" THEN [raised |-> TRUE, docs |-> <<>>]
    ELSE [raised |-> FALSE,
          docs |-> FindRecent(docs, FrameFilter, "ts", FrameFetchLimit)]

\* The frame fetch: "Added try-catch around frame fetching", "Gracefully
\* skips frames if there's an error (episodes are more important)".
FetchFrames(docs, read) ==
    IF read = "fails" THEN [raised |-> FALSE, docs |-> <<>>]
    ELSE [raised |-> FALSE,
          docs |-> FindRecent(docs, FrameFilter, "ts", FrameFetchLimit)]

\* The pairs of vectors that cosine_similarity is called with for a list of
\* candidates, each pair named by the dimensions of its two vectors.
Compared(kind, candidates) ==
    {[kind |-> kind, query |-> QueryEmbedding,
      stored |-> IF kind = "episode" THEN candidates[i].text_embedding
                 ELSE candidates[i].image_embedding] : i \in 1..Len(candidates)}

\* A requested search for relevant context, and the two collections it reads.
FindRelevantCalls ==
    {[op |-> "find_relevant", done |-> FALSE,
      episodes_collection |-> EpisodeCorpus(ne, ee),
      frames_collection |-> FrameCorpus(nf, ef),
      episodes_read |-> er, frames_read |-> fr] :
        ne \in CorpusSizes(EpisodeFetchLimit, MaxCorpusEpisodes), ee \in Embedded,
        nf \in CorpusSizes(FrameFetchLimit, MaxCorpusFrames), ef \in Embedded,
        er \in ReadResults, fr \in ReadResults}

\* The search runs: it fetches the episode candidates and the frame
\* candidates and compares the query embedding with each of them.  When a
\* read raises out of the search, the search fails and nothing is compared.
findRelevant ==
    LET fetched_episodes ==
            FetchEpisodes(retrieval.episodes_collection, retrieval.episodes_read)
        fetched_frames ==
            FetchFrames(retrieval.frames_collection, retrieval.frames_read)
        failed == fetched_episodes.raised \/ fetched_frames.raised
        episodes_with_embeddings == IF failed THEN <<>> ELSE fetched_episodes.docs
        frames_with_embeddings == IF failed THEN <<>> ELSE fetched_frames.docs
    IN  /\ retrieval.op = "find_relevant"
        /\ ~retrieval.done
        /\ retrieval' = [op |-> "find_relevant", done |-> TRUE,
                         episodes_collection |-> retrieval.episodes_collection,
                         frames_collection |-> retrieval.frames_collection,
                         episodes_read |-> retrieval.episodes_read,
                         frames_read |-> retrieval.frames_read,
                         failed |-> failed,
                         episodes_with_embeddings |-> episodes_with_embeddings,
                         frames_with_embeddings |-> frames_with_embeddings,
                         compared |-> Compared("episode", episodes_with_embeddings)
                                          \cup Compared("frame", frames_with_embeddings)]
        /\ UNCHANGED storeVars

\* ---------------------------------------------------------------------------
\* POST /api/query (Express backend)
\* ---------------------------------------------------------------------------
\* A text is a sequence of characters.  A score is in hundredths: 95 is 0.95.

\* A field the request does not carry.
Undefined == -3

\* "limit: z.number().int().positive().max(100).optional().default(10)"
MaxQueryLimit == 100

DefaultLimit == 10

\* "min_score: z.number().min(0).max(1).optional()"
MaxMinScore == 100

\* "numCandidates: limit * 10"
NumCandidatesFactor == 10

QueryTexts == {<<>>, <<"a", "b">>, <<"a", ".">>, <<"(">>}

LimitInputs == {Undefined, 0, 1, 2, MaxQueryLimit, MaxQueryLimit + 1}

MinScoreInputs == {Undefined, 90, MaxMinScore + 1}

\* What embedText does in a call: it returns a vector, or it throws because
\* the API key is not set or the API answered 429.
EmbedOutcomes == {"ok", "VOYAGE_API_KEY environment variable is not set",
                  "Voyage API error: 429"}

\* Whether the aggregation with $vectorSearch rejects (no index, for example).
VectorSearchOutcomes == {"ok", "fails"}

\* The stored episodes a collection is made of.  score is the
\* vectorSearchScore of the episode for the query of the call.  The episodes
\* of a collection are in insertion order, and a later one started later.
StoredEpisodes ==
    {[title |-> <<"A", "b", "c">>, summary_text |-> <<"c">>, text_embedding |-> "vector", score |-> 95],
     [title |-> <<"a", "c">>, summary_text |-> <<"c">>, text_embedding |-> "vector", score |-> 80],
     [title |-> <<"c">>, summary_text |-> <<"a", "b">>, text_embedding |-> "vector", score |-> 92],
     [title |-> <<"a", "b">>, summary_text |-> <<"c">>, text_embedding |-> "null", score |-> Null]}

RECURSIVE Collections(_)
Collections(n) ==
    IF n = 0 THEN {<<>>}
    ELSE Collections(n - 1)
            \cup {Append(c, [episode_id |-> Len(c) + 1, start_ts |-> 10 * (Len(c) + 1),
                             title |-> e.title,
                             summary_text |-> e.summary_text,
                             text_embedding |-> e.text_embedding, score |-> e.score]) :
                    c \in {d \in Collections(n - 1) : Len(d) = n - 1}, e \in StoredEpisodes}

\* QueryEpisodesSchema.safeParse(req.body).success
ValidQuery(query, limit, min_score) ==
    /\ Len(query) >= 1
    /\ limit = Undefined \/ (limit > 0 /\ limit <= MaxQueryLimit)
    /\ min_score = Undefined \/ (min_score >= 0 /\ min_score <= MaxMinScore)

\* validationResult.data.limit
ParsedLimit(limit) == IF limit = Undefined THEN DefaultLimit ELSE limit

\* The $project stage and results.map of the vector search.
ScoredResult(doc) == [episode_id |-> doc.episode_id, title |-> doc.title,
                      summary_text |-> doc.summary_text, start_ts |-> doc.start_ts,
                      score |-> doc.score]

\* textResults.map: the result carries no score.
UnscoredResult(doc) == [episode_id |-> doc.episode_id, title |-> doc.title,
                        summary_text |-> doc.summary_text, start_ts |-> doc.start_ts,
                        score |-> Null]

\* The episodes the vector search index holds: those with a text_embedding.
Indexed(collection) ==
    Select(collection, {i \in 1..Len(collection) : collection[i].text_embedding # "null"})

\* The $vectorSearch stage: of the numCandidates nearest indexed documents,
\* the limit nearest, nearest first.
VectorSearch(collection, numCandidates, limit) ==
    Truncate(Truncate(SortDescending(Indexed(collection), "score"), numCandidates), limit)

\* The optional $match stage, { score: { $gte: min_score } }.
MatchMinScore(docs, min_score) ==
    IF min_score # Undefined
    THEN Select(docs, {i \in 1..Len(docs) : docs[i].score >= min_score})
    ELSE docs

\* episodesCollection.aggregate(pipeline).toArray(), mapped to results.
VectorResults(collection, limit, min_score) ==
    LET docs == MatchMinScore(VectorSearch(collection, limit * NumCandidatesFactor, limit),
                              min_score)
    IN  [i \in 1..Len(docs) |-> ScoredResult(docs[i])]

Lower(ch) == IF ch = "A" THEN "a" ELSE ch

\* Whether MongoDB accepts the text as a regular expression: a group that is
\* opened and never closed is an error.
RegexValid(pattern) == \A i \in 1..Len(pattern) : pattern[i] # "("

\* { $regex: pattern, $options: 'i' }: the pattern matches somewhere in the
\* text; "." matches any character, any other character matches itself in
\* either case.
RegexMatches(pattern, text) ==
    \E off \in 0..(Len(text) - Len(pattern)) :
        \A i \in 1..Len(pattern) :
            pattern[i] = "." \/ Lower(pattern[i]) = Lower(text[off + i])

\* The episodes that match the filter of the text search:
\* {$or: [{title: {$regex: query, $options: 'i'}},
\*        {summary_text: {$regex: query, $options: 'i'}}],
\*  text_embedding: {$ne: null}}
TextMatches(collection, query) ==
    Select(collection,
           {i \in 1..Len(collection) :
               /\ \/ RegexMatches(query, collection[i].title)
                  \/ RegexMatches(query, collection[i].summary_text)
               /\ collection[i].text_embedding # "null"})

\* Variant of TextSearch: find(...) without .limit(limit).
TextSearchUnlimited(collection, query, limit) == TextMatches(collection, query)

\* episodesCollection.find({...}).limit(limit)
TextSearch(collection, query, limit) == Truncate(TextMatches(collection, query), limit)

\* A response of the route; a field the body does not carry is "none" (Null
\* for count).
ErrorResponse(code, message) ==
    [status |-> code, error |-> message, results |-> <<>>, count |-> Null, warning |-> "none"]

\* The catch block of the vector search: the text search fallback.
TextSearchFallback(collection, query, limit) ==
    IF ~RegexValid(query)
    THEN ErrorResponse(500, "Internal server error")
    ELSE LET textResults == TextSearch(collection, query, limit)
         IN  [status |-> 200, error |-> "none",
              results |-> [i \in 1..Len(textResults) |-> UnscoredResult(textResults[i])],
              count |-> Len(textResults),
              warning |-> "Vector search unavailable, using text search fallback"]

\* Variant of OnEmbeddingFailure: the failure is treated as a failure of the
\* vector search.
OnEmbeddingFailureFallback(collection, query, limit) ==
    TextSearchFallback(collection, query, limit)

\* The catch block of embedText(query).
OnEmbeddingFailure(collection, query, limit) ==
    ErrorResponse(500, "Failed to generate query embedding")

\* router.post('/') of the query routes.
QueryResponse(collection, query, limit_input, min_score, embed, vector_search) ==
    LET limit == ParsedLimit(limit_input)
    IN  IF ~ValidQuery(query, limit_input, min_score)
        THEN ErrorResponse(400, "Validation error")
        ELSE IF embed # "ok"
        THEN OnEmbeddingFailure(collection, query, limit)
        ELSE IF vector_search = "ok"
        THEN LET results == VectorResults(collection, limit, min_score)
             IN  [status |-> 200, error |-> "none", results |-> results,
                  count |-> Len(results), warning |-> "none"]
        ELSE TextSearchFallback(collection, query, limit)

\* The episodes the handler reads from the collection as candidates: the
\* numCandidates of the vector search, or what the text search finds.
CandidatesRead(collection, query, limit_input, min_score, embed, vector_search) ==
    LET limit == ParsedLimit(limit_input)
    IN  IF ~ValidQuery(query, limit_input, min_score) \/ embed # "ok"
        THEN <<>>
        ELSE IF vector_search = "ok"
        THEN Truncate(SortDescending(Indexed(collection), "score"),
                      limit * NumCandidatesFactor)
        ELSE IF RegexValid(query) THEN TextSearch(collection, query, limit) ELSE <<>>

\* A request to POST /api/query, the collection it searches, and what the
\* embedding call and the vector search do.
QueryCalls ==
    {[op |-> "query", done |-> FALSE, collection |-> c, query |-> q, limit |-> l,
      min_score |-> m, embed |-> e, vector_search |-> v] :
        c \in Collections(MaxQueryCorpus), q \in QueryTexts, l \in LimitInputs,
        m \in MinScoreInputs, e \in EmbedOutcomes, v \in VectorSearchOutcomes}

\* POST /api/query is handled.
queryEpisodes ==
    /\ retrieval.op = "query"
    /\ ~retrieval.done
    /\ retrieval' = [op |-> "query", done |-> TRUE,
                     collection |-> retrieval.collection,
                     query |-> retrieval.query,
                     limit |-> retrieval.limit,
                     min_score |-> retrieval.min_score,
                     embed |-> retrieval.embed,
                     vector_search |-> retrieval.vector_search,
                     candidates |-> CandidatesRead(retrieval.collection, retrieval.query,
                                                   retrieval.limit, retrieval.min_score,
                                                   retrieval.embed, retrieval.vector_search),
                     response |-> QueryResponse(retrieval.collection, retrieval.query,
                                                retrieval.limit, retrieval.min_score,
                                                retrieval.embed, retrieval.vector_search)]
    /\ UNCHANGED storeVars

\* ---------------------------------------------------------------------------
\* Context Assembler (get_relevant_context)
\* ---------------------------------------------------------------------------
\* The formatted context is a text; it is modelled as the list of its lines
\* (the parts joined by "\n"), so the empty string is the empty list.  A
\* ranked episode or frame is named by its id.

\* "episodes_collection.find({}).sort("start_ts", -1).limit(5)"
EpisodeContextLimit == 5

\* "limit: int = 10"
DefaultContextLimit == 10

\* The two versions of the function: the one that lists recent activity, and
\* the one that lists the results of the semantic search, which uses limit
\* for both lists.
Versions == {"recent", "semantic"}

EpisodeLimit(version, limit) == IF version = "recent" THEN EpisodeContextLimit ELSE limit

\* The text returned when there is nothing to list.
Sentinel(version) ==
    IF version = "recent" THEN "No recent activity data available."
    ELSE "No relevant context found."

EpisodesHeader(version) ==
    IF version = "recent" THEN "Recent Activity Episodes:"
    ELSE "Relevant Episodes (semantic search):"

FramesHeader(version) ==
    IF version = "recent" THEN "Recent Screenshots:"
    ELSE "Relevant Screenshots (semantic search):"

\* datetime.fromtimestamp(ts / 1000).strftime("%Y-%m-%d %H:%M:%S"): the
\* timestamp in milliseconds rendered to the second.
RenderDate(ts) == [seconds |-> ts \div 1000]

\* The start_ts of the ranked episode and the ts of the ranked frame with a
\* given id.
StartTsOf(episode) == 1500 * episode

TsOf(frame) == 700 * frame

HeaderLine(text) == [kind |-> "header", id |-> 0, text |-> text, date |-> RenderDate(0)]

\* f"- {app_name}: {frame_count} screenshots, started at {start_date}"
EpisodeLine(episode) ==
    [kind |-> "episode", id |-> episode, text |-> "screenshots, started at",
     date |-> RenderDate(StartTsOf(episode))]

\* f"- {frame_date}: {app_name} - {window_title}"
FrameLine(frame) ==
    [kind |-> "frame", id |-> frame, text |-> "-", date |-> RenderDate(TsOf(frame))]

TextLine(text) == [kind |-> "text", id |-> 0, text |-> text, date |-> RenderDate(0)]

\* Variant of ContextParts: the screenshots are listed before the episodes.
ContextPartsFramesFirst(version, episodes_list, frames_list) ==
    (IF frames_list # <<>>
     THEN <<HeaderLine(FramesHeader(version))>>
              \o [i \in 1..Len(frames_list) |-> FrameLine(frames_list[i])]
     ELSE <<>>)
    \o (IF episodes_list # <<>>
        THEN <<HeaderLine(EpisodesHeader(version))>>
                 \o [i \in 1..Len(episodes_list) |-> EpisodeLine(episodes_list[i])]
        ELSE <<>>)

\* context_parts: the episode context, then the frame context.
ContextParts(version, episodes_list, frames_list) ==
    (IF episodes_list # <<>>
     THEN <<HeaderLine(EpisodesHeader(version))>>
              \o [i \in 1..Len(episodes_list) |-> EpisodeLine(episodes_list[i])]
     ELSE <<>>)
    \o (IF frames_list # <<>>
        THEN <<HeaderLine(FramesHeader(version))>>
                 \o [i \in 1..Len(frames_list) |-> FrameLine(frames_list[i])]
        ELSE <<>>)

\* Variant of JoinOrSentinel: "\n".join(context_parts) alone.
JoinOnly(version, context_parts) == context_parts

\* "\n".join(context_parts) if context_parts else the sentinel
JoinOrSentinel(version, context_parts) ==
    IF context_parts # <<>> THEN context_parts ELSE <<TextLine(Sentinel(version))>>

\* Variant of Limited: the cursor without .limit(limit).
Unlimited(ranked, limit) == ranked

\* cursor.limit(limit)
Limited(ranked, limit) == Truncate(ranked, limit)

\* What happens to the reads of the function: they succeed, a collection is
\* None, or a read raises.
ReadOutcomes == {"ok", "unavailable", "raises"}

\* get_relevant_context(user_query, limit) -> str, given the ranked episodes
\* and frames its two reads would return without their limit.
Assemble(version, ranked_episodes, ranked_frames, limit, outcome) ==
    IF outcome = "unavailable"
    THEN <<TextLine("Database unavailable. Context cannot be retrieved.")>>
    ELSE IF outcome = "raises"
    THEN <<TextLine("Error retrieving context")>>
    ELSE JoinOrSentinel(version,
             ContextParts(version,
                          Limited(ranked_episodes, EpisodeLimit(version, limit)),
                          Limited(ranked_frames, limit)))

\* A requested call of get_relevant_context.
AssembleCalls ==
    {[op |-> "assemble", done |-> FALSE, version |-> v,
      ranked_episodes |-> [i \in 1..ne |-> i], ranked_frames |-> [i \in 1..nf |-> i],
      limit |-> l, outcome |-> o] :
        v \in Versions, ne \in 0..MaxContextEpisodes, nf \in 0..MaxContextFrames,
        l \in {1, 2, DefaultContextLimit}, o \in ReadOutcomes}

\* get_relevant_context runs.
assemble ==
    /\ retrieval.op = "assemble"
    /\ ~retrieval.done
    /\ retrieval' = [op |-> "assemble", done |-> TRUE,
                     version |-> retrieval.version,
                     ranked_episodes |-> retrieval.ranked_episodes,
                     ranked_frames |-> retrieval.ranked_frames,
                     limit |-> retrieval.limit,
                     outcome |-> retrieval.outcome,
                     formatted_context |-> Assemble(retrieval.version,
                                                    retrieval.ranked_episodes,
                                                    retrieval.ranked_frames,
                                                    retrieval.limit, retrieval.outcome)]
    /\ UNCHANGED storeVars

\* ---------------------------------------------------------------------------
\* ActivityTracker (Electron client)
\* ---------------------------------------------------------------------------
\* collectAndSend is an async function: a call runs until it awaits, and the
\* calls started by the interval timer and by the focus and blur listeners
\* interleave at the awaits.  A call awaits getActiveWindow() inside
\* collectActivity and fetch() inside sendActivityToServer.

\* "Keep only last 50 entries in memory"
HistoryLimit == 50

\* The calls of collectAndSend that may be under way at once.
TrackerCalls == 1..MaxTrackerCalls

\* collectActivity returning null, and lastAppName of an empty history.
NoData == "null"

\* How the awaited getActiveWindow() settles: with the window in front, or by
\* making collectActivity throw (on a platform that is none of the three,
\* getActiveWindow resolves to undefined and activeWindow.appName throws).
WindowReads == {"window", "throws"}

\* How the awaited fetch settles: the server took the POST, or the request
\* failed or the response was not ok.
FetchOutcomes == {"ok", "fails"}

\* "this.activityHistory.length > 0
\*    ? this.activityHistory[this.activityHistory.length - 1].appName : null"
LastAppName(activityHistory) ==
    IF Len(activityHistory) > 0
    THEN activityHistory[Len(activityHistory)].appName
    ELSE NoData

\* Variant of AppNameChanged: every collection reports.
AppNameChangedAlways(appName, lastAppName) == TRUE

\* "if (appName !== lastAppName)"
AppNameChanged(appName, lastAppName) == appName # lastAppName

\* "this.activityHistory.push(activityData);
\*  if (this.activityHistory.length > 50) { this.activityHistory.shift(); }"
Push(activityHistory, activityData) ==
    LET pushed == Append(activityHistory, activityData)
    IN  IF Len(pushed) > HistoryLimit THEN Tail(pushed) ELSE pushed

\* Variant of CollectionInProgress: collectActivity without its first line.
CollectionInProgressNever(t) == FALSE

\* "if (this.isCollecting) return null; // Prevent concurrent collections"
CollectionInProgress(t) == t.isCollecting

\* What the tracker's calls leave alone.
notTrackerVars == <<episodes, frames, last_app_name, current_episode_id, last_ts,
                    last_call, status, owner, log, inflight, lock, retrieval,
                    captureVars, connectionVars>>

\* collectAndSend() is called (by start, the interval timer, or the focus or
\* blur listener) and runs up to its first await: collectActivity returns
\* null at once when a collection is in progress, and otherwise sets
\* isCollecting and awaits getActiveWindow().
collectAndSend(c) ==
    /\ collecting[c] = Idle
    /\ IF CollectionInProgress(tracker)
       THEN /\ collected' = [call |-> c, activityData |-> NoData, read |-> FALSE]
            /\ UNCHANGED <<tracker, collecting>>
       ELSE /\ tracker' = [tracker EXCEPT !.isCollecting = TRUE]
            /\ collecting' = [collecting EXCEPT ![c] = [pc |-> "getActiveWindow"]]
            /\ UNCHANGED collected
    /\ UNCHANGED <<front_app, server_app_name>>
    /\ UNCHANGED notTrackerVars

\* getActiveWindow() settles and collectActivity runs to its end: it records
\* and returns the app name when it changed, returns null otherwise and when
\* it throws, and resets isCollecting in its finally block.  collectAndSend
\* then calls sendActivityToServer with what was returned, which awaits fetch.
collectActivity(c, read) ==
    /\ collecting[c] = [pc |-> "getActiveWindow"]
    /\ LET appName == front_app
           lastAppName == LastAppName(tracker.activityHistory)
           activityData == IF read = "window" /\ AppNameChanged(appName, lastAppName)
                           THEN appName ELSE NoData
       IN  /\ tracker' = [isCollecting |-> FALSE,
                          activityHistory |->
                              IF activityData # NoData
                              THEN Push(tracker.activityHistory, [appName |-> appName])
                              ELSE tracker.activityHistory]
           /\ collected' = [call |-> c, activityData |-> activityData, read |-> TRUE]
           /\ collecting' = [collecting EXCEPT ![c] =
                                IF activityData # NoData
                                THEN [pc |-> "fetch", appName |-> activityData]
                                ELSE Idle]
    /\ UNCHANGED <<front_app, server_app_name>>
    /\ UNCHANGED notTrackerVars

\* The fetch of sendActivityToServer settles; an error is logged and
\* sendActivityToServer returns null.  collectAndSend is over.
sendActivityToServer(c, outcome) ==
    /\ collecting[c].pc = "fetch"
    /\ server_app_name' = IF outcome = "ok" THEN collecting[c].appName
                          ELSE server_app_name
    /\ collecting' = [collecting EXCEPT ![c] = Idle]
    /\ UNCHANGED <<tracker, collected, front_app>>
    /\ UNCHANGED notTrackerVars

\* clearHistory()
clearHistory ==
    /\ tracker.activityHistory # <<>>
    /\ tracker' = [tracker EXCEPT !.activityHistory = <<>>]
    /\ UNCHANGED <<collecting, collected, front_app, server_app_name>>
    /\ UNCHANGED notTrackerVars

\* The user brings another application to the front.
switchApp(appName) ==
    /\ appName # front_app
    /\ front_app' = appName
    /\ UNCHANGED <<tracker, collecting, collected, server_app_name>>
    /\ UNCHANGED notTrackerVars

\* ---------------------------------------------------------------------------
\* onCapture (Electron renderer)
\* ---------------------------------------------------------------------------
\* onCapture is an async function; the renderer handles each 'capture' event
\* with one call, and the calls interleave at the awaits.  The file of a
\* request is named here by the number of the request; a null filePath is 0.

CaptureRequests == 1..MaxCaptures

\* A null filePath.
NoFile == 0

\* ipc.send('screenshot-saved', filePath, success, error) of request r.
Saved(r, filePath, success) ==
    [channel |-> "screenshot-saved", request |-> r, filePath |-> filePath,
     success |-> success]

\* ipc.send('screenshot-uploaded', filePath, result.url || null) of request r.
Uploaded(r, filePath) ==
    [channel |-> "screenshot-uploaded", request |-> r, filePath |-> filePath,
     success |-> TRUE]

\* What ipc.invoke('capture-screen-source', screenSize) settles with: a PNG,
\* { success: false }, an empty pngBase64, or a rejection.
SourceResults == {"png", "no source", "empty png", "rejects"}

\* What writeScreenshot meets: the file is written and verified, fs.writeFile
\* calls back with an error, or the written file has 0 bytes.
WriteResults == {"written", "error", "empty file"}

\* What the upload meets: a response with success, a response that is ok
\* without success, or an error (network, status not ok).
UploadResults == {"success", "unsuccessful", "fails"}

\* The catch block of onCapture: "ipc.send('screenshot-saved', null, false,
\* err.message)".
CaptureFailed(r) == <<Saved(r, NoFile, FALSE)>>

\* writeScreenshot: the message it sends before it resolves or rejects.
WriteMessages(r, result) ==
    IF result = "written" THEN <<Saved(r, r, TRUE)>> ELSE <<Saved(r, r, FALSE)>>

\* Variant of UploadMessages: an upload that fails is reported as a failed
\* save, as the catch block of onCapture would do for an awaited upload.
UploadMessagesFailing(r, result) ==
    IF result = "success" THEN <<Uploaded(r, r)>> ELSE CaptureFailed(r)

\* uploadScreenshotToVercel(...).then(...).catch(...): an error of the upload
\* is caught in uploadScreenshotToVercel, which then returns null.
UploadMessages(r, result) ==
    IF result = "success" THEN <<Uploaded(r, r)>> ELSE <<>>

\* What the capture handler leaves alone.
notCaptureVars == <<episodes, frames, last_app_name, current_episode_id, last_ts,
                    last_call, status, owner, log, inflight, lock, retrieval,
                    trackerVars, connectionVars>>

\* The renderer receives 'capture': onCapture runs ensureDirectoryExists,
\* which may throw, and then awaits the screen info and the screen source.
onCapture(r, directory_ok, uploadUrl) ==
    /\ capturing[r] = Idle
    /\ IF directory_ok
       THEN /\ capturing' = [capturing EXCEPT ![r] =
                                [pc |-> "capture-screen-source", uploadUrl |-> uploadUrl]]
            /\ UNCHANGED ipc_messages
       ELSE /\ capturing' = [capturing EXCEPT ![r] = [pc |-> "done"]]
            /\ ipc_messages' = ipc_messages \o CaptureFailed(r)
    /\ UNCHANGED notCaptureVars

\* ipc.invoke('capture-screen-source') settles.  With a PNG, onCapture calls
\* writeScreenshot and awaits it.
captureScreenSource(r, result) ==
    /\ capturing[r].pc = "capture-screen-source"
    /\ IF result = "png"
       THEN /\ capturing' = [capturing EXCEPT ![r].pc = "writeScreenshot"]
            /\ UNCHANGED ipc_messages
       ELSE /\ capturing' = [capturing EXCEPT ![r] = [pc |-> "done"]]
            /\ ipc_messages' = ipc_messages \o CaptureFailed(r)
    /\ UNCHANGED notCaptureVars

\* fs.writeFile calls back: writeScreenshot sends its message and resolves or
\* rejects; a rejection takes onCapture to its catch block.  After a
\* resolution onCapture awaits getCurrentWindowInfo.
writeScreenshot(r, result) ==
    /\ capturing[r].pc = "writeScreenshot"
    /\ IF result = "written"
       THEN /\ capturing' = [capturing EXCEPT ![r].pc = "getCurrentWindowInfo"]
            /\ ipc_messages' = ipc_messages \o WriteMessages(r, result)
       ELSE /\ capturing' = [capturing EXCEPT ![r] = [pc |-> "done"]]
            /\ ipc_messages' = ipc_messages \o WriteMessages(r, result) \o CaptureFailed(r)
    /\ UNCHANGED notCaptureVars

\* getCurrentWindowInfo settles (its errors are caught).  With an upload URL
\* onCapture starts the upload without awaiting it, and returns.
getCurrentWindowInfo(r) ==
    /\ capturing[r].pc = "getCurrentWindowInfo"
    /\ capturing' = [capturing EXCEPT ![r] =
                        IF capturing[r].uploadUrl
                        THEN [pc |-> "uploadScreenshotToVercel"]
                        ELSE [pc |-> "done"]]
    /\ UNCHANGED ipc_messages
    /\ UNCHANGED notCaptureVars

\* The upload settles.
uploadScreenshotToVercel(r, result) ==
    /\ capturing[r].pc = "uploadScreenshotToVercel"
    /\ capturing' = [capturing EXCEPT ![r] = [pc |-> "done"]]
    /\ ipc_messages' = ipc_messages \o UploadMessages(r, result)
    /\ UNCHANGED notCaptureVars

\* ---------------------------------------------------------------------------
\* connectDB and closeDB (Express backend, db.ts)
\* ---------------------------------------------------------------------------
\* connectDB and closeDB are async functions; the calls made by the request
\* handlers interleave at the awaits.  A MongoClient is named by a number,
\* and the Db instance client.db(dbName) by the number of its client.

\* "let client: MongoClient | null = null; let db: Db | null = null"
NoClient == 0

MongoClients == 1..MaxClients

DbCalls == 1..MaxDbCalls

\* How the awaited client.connect() settles.
ConnectResults == {"ok", "fails"}

\* "new MongoClient(uri, ...)": a client that did not exist.
NewMongoClient(cs) ==
    CHOOSE k \in MongoClients : cs[k] = "none" /\ \A j \in MongoClients : j < k => cs[j] # "none"

\* What the connection calls leave alone.
notConnectionVars == <<episodes, frames, last_app_name, current_episode_id, last_ts,
                       last_call, status, owner, log, inflight, lock, retrieval,
                       trackerVars, captureVars>>

\* connectDB() is called and runs up to its first await: it returns db when
\* db is set, and otherwise creates a MongoClient, assigns it to client and
\* awaits client.connect().  MONGODB_URI is set.
connectDB(c) ==
    /\ connecting[c] = Idle
    /\ IF mongo.db # NoClient
       THEN /\ received' = received \cup {mongo.db}
            /\ UNCHANGED <<mongo, clients, connecting>>
       ELSE /\ \E k \in MongoClients : clients[k] = "none"
            /\ LET k == NewMongoClient(clients)
               IN  /\ mongo' = [mongo EXCEPT !.client = k]
                   /\ clients' = [clients EXCEPT ![k] = "connecting"]
                   /\ connecting' = [connecting EXCEPT ![c] =
                                        [pc |-> "connect", client |-> k]]
            /\ UNCHANGED received
    /\ UNCHANGED notConnectionVars

\* client.connect() settles.  When it resolves, connectDB runs
\* "db = client.db(dbName)" with the client the module variable holds then,
\* and awaits ensureVectorSearchIndexes(db); when it rejects, or client is
\* null by then, connectDB throws "Failed to connect to MongoDB".
connect(c, result) ==
    /\ connecting[c].pc = "connect"
    /\ LET k == connecting[c].client
           connected == result = "ok" /\ clients[k] = "connecting"
       IN  /\ clients' = [clients EXCEPT ![k] =
                             IF connected THEN "connected"
                             ELSE IF clients[k] = "closed" THEN "closed" ELSE "failed"]
           /\ IF connected /\ mongo.client # NoClient
              THEN /\ mongo' = [mongo EXCEPT !.db = mongo.client]
                   /\ connecting' = [connecting EXCEPT ![c] =
                                        [pc |-> "ensureVectorSearchIndexes"]]
              ELSE /\ connecting' = [connecting EXCEPT ![c] = Idle]
                   /\ UNCHANGED mongo
    /\ UNCHANGED received
    /\ UNCHANGED notConnectionVars

\* ensureVectorSearchIndexes settles (it catches its errors) and connectDB
\* returns what the module variable db holds then.
ensureVectorSearchIndexes(c) ==
    /\ connecting[c].pc = "ensureVectorSearchIndexes"
    /\ received' = received \cup {mongo.db}
    /\ connecting' = [connecting EXCEPT ![c] = Idle]
    /\ UNCHANGED <<mongo, clients>>
    /\ UNCHANGED notConnectionVars

\* closeDB() is called with client set and awaits client.close().
closeDB(c) ==
    /\ connecting[c] = Idle
    /\ mongo.client # NoClient
    /\ connecting' = [connecting EXCEPT ![c] = [pc |-> "close", client |-> mongo.client]]
    /\ UNCHANGED <<mongo, clients, received>>
    /\ UNCHANGED notConnectionVars

\* client.close() settles: "client = null; db = null".
close(c) ==
    /\ connecting[c].pc = "close"
    /\ clients' = [clients EXCEPT ![connecting[c].client] = "closed"]
    /\ mongo' = [client |-> NoClient, db |-> NoClient]
    /\ received' = {}
    /\ connecting' = [connecting EXCEPT ![c] = Idle]
    /\ UNCHANGED notConnectionVars

\* ---------------------------------------------------------------------------
\* Specifications
\* ---------------------------------------------------------------------------

\* The Electron client when it starts: "this.isCollecting = false;
\* this.activityHistory = []", no call of collectAndSend yet, no capture
\* requested; and the backend before its first connectDB: "let client = null;
\* let db = null".
ClientStart ==
    /\ tracker = [isCollecting |-> FALSE, activityHistory |-> <<>>]
    /\ collecting = [c \in TrackerCalls |-> Idle]
    /\ collected = [call |-> 0, activityData |-> NoData, read |-> FALSE]
    /\ front_app = "Chrome"
    /\ server_app_name = NoAppName
    /\ capturing = [r \in CaptureRequests |-> Idle]
    /\ ipc_messages = <<>>
    /\ mongo = [client |-> NoClient, db |-> NoClient]
    /\ clients = [k \in MongoClients |-> "none"]
    /\ connecting = [c \in DbCalls |-> Idle]
    /\ received = {}

Init ==
    /\ episodes = <<>>
    /\ frames = <<>>
    /\ last_app_name = NoAppName
    /\ current_episode_id = NoEpisode
    /\ last_ts = [s \in Sources |-> NoTs]
    /\ last_call = Call("none", "none", NoTs, "none", NoEpisode, 0)
    /\ status = <<>>
    /\ owner = <<>>
    /\ log = [s \in Sources |-> <<>>]
    /\ inflight = [c \in Slots |-> Idle]
    /\ lock = {}
    /\ retrieval = [op |-> "none"]
    /\ ClientStart

\* An event of any tracked source.
Observe == \E s \in Sources, t \in Timestamps, k \in Keys :
               observe(s, t, k, FreshFrameId(frames))

\* Any tracked source disconnects.
CloseSource == \E s \in Sources : closeSource(s)

\* The same two calls when a single source is tracked.
ObserveOne == \E t \in Timestamps, k \in Keys :
                  observe(FirstSource, t, k, FreshFrameId(frames))

CloseOne == closeSource(FirstSource)

\* A validated body of POST /api/frames (ts is a positive integer).
CreateFrame == \E e \in EpisodeIdInputs, f \in FrameIdInputs, t \in Timestamps \ {0},
                  d \in DbErrors :
                   createFrame(e, f, t, d)

\* The activity tracker of the tracked source reports an application.
ActivityOne == \E t \in Timestamps, k \in Keys : activity(FirstSource, t, k)

\* Screenshots and app-change notifications of one tracked source.
NextActivity == ObserveOne \/ ActivityOne

SpecActivity == Init /\ [][NextActivity]_vars

\* A validated body of POST /api/episodes (start_ts and end_ts are positive
\* integers).
CreateEpisode == \E e \in EpisodeIdOptions, t1 \in Timestamps \ {0}, t2 \in Timestamps \ {0},
                    fs \in FrameIdsInputs, ok \in BOOLEAN, d \in DbErrors \ {"updateOne"} :
                     createEpisode(e, t1, t2, fs, ok, d)

\* The Express backend alone: its two creation routes.
NextExpress == CreateEpisode \/ CreateFrame

SpecExpress == Init /\ [][NextExpress]_vars

\* Concurrent observe requests of one source.
ObserveArrive == \E c \in Slots, t \in Timestamps, k \in Keys :
                     observeArrive(c, FirstSource, t, k)

ObserveEnter == \E c \in Slots : observeEnter(c)

ObserveWrite == \E c \in Slots : observeWrite(c)

NextConcurrent == ObserveArrive \/ ObserveEnter \/ ObserveWrite

SpecConcurrent == Init /\ [][NextConcurrent]_vars

\* The collections and the segmenter as they are before any call.
StoreEmpty ==
    /\ episodes = <<>>
    /\ frames = <<>>
    /\ last_app_name = NoAppName
    /\ current_episode_id = NoEpisode
    /\ last_ts = [s \in Sources |-> NoTs]
    /\ last_call = Call("none", "none", NoTs, "none", NoEpisode, 0)
    /\ status = <<>>
    /\ owner = <<>>
    /\ log = [s \in Sources |-> <<>>]
    /\ inflight = [c \in Slots |-> Idle]
    /\ lock = {}
    /\ ClientStart

\* The Similarity Ranker: one requested call, which then runs.
InitSimilarity == StoreEmpty /\ retrieval \in SimilarityCalls

NextSimilarity == cosineSimilarity

SpecSimilarity == InitSimilarity /\ [][NextSimilarity]_vars

InitRank == StoreEmpty /\ retrieval \in RankCalls

NextRank == rank

SpecRank == InitRank /\ [][NextRank]_vars

\* The candidate fetch: one requested search, which then runs.
InitFindRelevant == StoreEmpty /\ retrieval \in FindRelevantCalls

NextFindRelevant == findRelevant

SpecFindRelevant == InitFindRelevant /\ [][NextFindRelevant]_vars

\* The query route: one request, which is then handled.
InitQuery == StoreEmpty /\ retrieval \in QueryCalls

NextQuery == queryEpisodes

SpecQuery == InitQuery /\ [][NextQuery]_vars

\* The Context Assembler: one requested call, which then runs.
InitAssemble == StoreEmpty /\ retrieval \in AssembleCalls

NextAssemble == assemble

SpecAssemble == InitAssemble /\ [][NextAssemble]_vars

\* Concurrent requests to the two creation routes of the Express backend.
PostEpisodeFind == \E c \in Slots, e \in EpisodeIdOptions, ok \in BOOLEAN :
                       postEpisodeFind(c, e, ok)

PostEpisodeInsert == \E c \in Slots : postEpisodeInsert(c)

PostFrameFind == \E c \in Slots, e \in EpisodeIdInputs, f \in FrameIdInputs :
                     postFrameFind(c, e, f)

PostFrameInsert == \E c \in Slots : postFrameInsert(c)

NextCreate == PostEpisodeFind \/ PostEpisodeInsert \/ PostFrameFind \/ PostFrameInsert

SpecCreate == Init /\ [][NextCreate]_vars

\* The Reranking Orchestrator: one requested call, which then runs.
InitRerank == StoreEmpty /\ retrieval \in RerankCalls

NextRerank == rerank

SpecRerank == InitRerank /\ [][NextRerank]_vars

\* The segmenter with two tracked sources.
NextSeg == Observe \/ CloseSource

SpecSeg == Init /\ [][NextSeg]_vars

\* The segmenter with one tracked source, and the frame route, on the shared
\* collections.
Next == ObserveOne \/ CloseOne \/ CreateFrame

Spec == Init /\ [][Next]_vars

\* The activity tracker of one client.
CollectAndSend == \E c \in TrackerCalls : collectAndSend(c)

CollectActivity == \E c \in TrackerCalls, read \in WindowReads : collectActivity(c, read)

SendActivityToServer == \E c \in TrackerCalls, outcome \in FetchOutcomes :
                            sendActivityToServer(c, outcome)

SwitchApp == \E appName \in Keys : switchApp(appName)

NextTracker == CollectAndSend \/ CollectActivity \/ SendActivityToServer
                   \/ SwitchApp \/ clearHistory

SpecTracker == Init /\ [][NextTracker]_vars

\* The same with the interval timer running: a call of collectAndSend that
\* can start does start, and an awaited promise settles.
SpecTrackerFair ==
    /\ Init
    /\ [][NextTracker]_vars
    /\ WF_vars(CollectAndSend)
    /\ WF_vars(CollectActivity)
    /\ WF_vars(SendActivityToServer)

\* The capture requests of one renderer.
OnCapture == \E r \in CaptureRequests, directory_ok \in BOOLEAN, uploadUrl \in BOOLEAN :
                 onCapture(r, directory_ok, uploadUrl)

CaptureScreenSource == \E r \in CaptureRequests, result \in SourceResults :
                           captureScreenSource(r, result)

WriteScreenshot == \E r \in CaptureRequests, result \in WriteResults :
                       writeScreenshot(r, result)

GetCurrentWindowInfo == \E r \in CaptureRequests : getCurrentWindowInfo(r)

UploadScreenshotToVercel == \E r \in CaptureRequests, result \in UploadResults :
                                uploadScreenshotToVercel(r, result)

NextCapture == OnCapture \/ CaptureScreenSource \/ WriteScreenshot
                   \/ GetCurrentWindowInfo \/ UploadScreenshotToVercel

SpecCapture == Init /\ [][NextCapture]_vars

\* The calls of connectDB and closeDB in one backend process.
ConnectDB == \E c \in DbCalls : connectDB(c)

Connect == \E c \in DbCalls, result \in ConnectResults : connect(c, result)

EnsureVectorSearchIndexes == \E c \in DbCalls : ensureVectorSearchIndexes(c)

CloseDB == \E c \in DbCalls : closeDB(c)

Close == \E c \in DbCalls : close(c)

NextConnection == ConnectDB \/ Connect \/ EnsureVectorSearchIndexes \/ CloseDB \/ Close

SpecConnection == Init /\ [][NextConnection]_vars

\* ---------------------------------------------------------------------------
\* Vocabulary of the properties
\* ---------------------------------------------------------------------------

EpisodeIndexes == 1..Len(episodes)

\* The episodes whose frame_ids hold frame_id.
Holders(frame_id) == {i \in EpisodeIndexes : frame_id \in Range(episodes[i].frame_ids)}

\* The observe events of a source, in the order they were applied.
Events(s) == SelectSeq(log[s], LAMBDA c : c.op = "observe")

\* Only source s has acted, and it has only observed.
OnlyObserved(s) ==
    /\ \A t \in Sources \ {s} : log[t] = <<>>
    /\ Events(s) = log[s]
    /\ Len(frames) = Len(log[s])

\* Only source s has acted on the segmenter.
OnlySource(s) ==
    /\ \A t \in Sources \ {s} : log[t] = <<>>
    /\ Len(frames) = Len(Events(s))

\* The stored frame document with this id.
FrameDoc(frame_id) == frames[CHOOSE i \in FindFrame(frames, frame_id) : TRUE]

\* ---------------------------------------------------------------------------
\* C1
\* ---------------------------------------------------------------------------

\* C1: when one source alone has issued observe calls (accepted ones have
\* non-decreasing timestamps), the episodes partition its frames into maximal
\* runs of equal key: every frame is held by exactly one episode; two events
\* held by the same episode have the same key, the episode's, and so has
\* every event between them, held by that episode too; and two consecutive
\* events with the same key are held by the same episode.
C1_PartitionIntoRuns ==
    \A s \in Sources :
        OnlyObserved(s) =>
            LET ev == Events(s)
                h(j) == Holders(ev[j].frame_id)
            IN  /\ \A j \in 1..Len(ev) :
                      /\ Cardinality(h(j)) = 1
                      /\ \A i \in h(j) :
                            /\ episodes[i].app_name = ev[j].key
                            /\ FrameDoc(ev[j].frame_id).episode_id = episodes[i].episode_id
                /\ \A j \in 1..Len(ev), k \in 1..Len(ev) :
                      (j < k /\ h(j) = h(k)) =>
                          \A m \in j..k : h(m) = h(j) /\ ev[m].key = ev[j].key
                /\ \A j \in 1..(Len(ev) - 1) :
                      ev[j].key = ev[j + 1].key => h(j) = h(j + 1)
                /\ \A i \in EpisodeIndexes :
                      \A n \in 1..Len(episodes[i].frame_ids) :
                          \E j \in 1..Len(ev) : ev[j].frame_id = episodes[i].frame_ids[n]

\* One source has observed Chrome, Chrome, Editor: a run of two and a run of one.
C1_Witness ==
    \E s \in Sources :
        /\ OnlyObserved(s)
        /\ Len(episodes) = 2
        /\ Len(episodes[1].frame_ids) = 2
        /\ Len(episodes[2].frame_ids) = 1

\* ---------------------------------------------------------------------------
\* C2
\* ---------------------------------------------------------------------------

\* The segmenter state before any call.
EmptySegState ==
    [episodes |-> <<>>, current_episode_id |-> NoEpisode,
     last_app_name |-> NoAppName, status |-> <<>>]

\* The segmenter state after the first n calls of `calls`, applied to a
\* segmenter that sees no other call.
RECURSIVE Replay(_, _)
Replay(calls, n) ==
    IF n = 0
    THEN EmptySegState
    ELSE LET c == calls[n]
         IN  CHOOSE after \in {IF c.op = "observe"
                                THEN ObserveStep(st, c.ts, c.key, c.frame_id)
                                ELSE IF c.op = "activity"
                                THEN ActivityStep(st, c.ts, c.key)
                                ELSE CloseStep(st) : st \in {Replay(calls, n - 1)}} : TRUE

\* The episodes a source's calls produce when they are processed alone.
Alone(s) == Replay(log[s], Len(log[s])).episodes

\* The episodes that were returned for the events of a source.
EpisodesOf(s) ==
    LET ids == {FrameDoc(Events(s)[j].frame_id).episode_id : j \in 1..Len(Events(s))}
    IN  SelectSeq(episodes, LAMBDA e : e.episode_id \in ids)

\* What C2 compares: key, frame list, start and end timestamps.
Outline(eps) ==
    [i \in 1..Len(eps) |->
        [app_name |-> eps[i].app_name, frame_ids |-> eps[i].frame_ids,
         start_ts |-> eps[i].start_ts, end_ts |-> eps[i].end_ts]]

\* C2: under any interleaving of the calls of two sources, the episodes
\* produced for each source have the keys, frame lists, start and end
\* timestamps that the source's calls produce when they are processed alone.
C2_SourcesIndependent ==
    \A s \in Sources : Outline(EpisodesOf(s)) = Outline(Alone(s))

\* ---------------------------------------------------------------------------
\* C3
\* ---------------------------------------------------------------------------

\* The episodes of a source that have not been closed.
OpenEpisodes(s) == {i \in EpisodeIndexes : status[i] = "open" /\ owner[i] = s}

\* C3: in every reachable state each tracked source has at most one open
\* episode.
C3_AtMostOneOpen == \A s \in Sources : Cardinality(OpenEpisodes(s)) <= 1

\* A source has a closed episode and an open one.
C3_Witness ==
    \E s \in Sources :
        /\ Cardinality(OpenEpisodes(s)) = 1
        /\ \E i \in EpisodeIndexes : owner[i] = s /\ status[i] = "key-change"

\* ---------------------------------------------------------------------------
\* C4
\* ---------------------------------------------------------------------------

C6_FrameCountIsLength ==
    \A i \in EpisodeIndexes : episodes[i].frame_count = Len(episodes[i].frame_ids)

\* ---------------------------------------------------------------------------
\* C7
\* ---------------------------------------------------------------------------

\* The timestamp of the last frame an episode took.
LastFrameTs(i) == FrameDoc(episodes[i].frame_ids[Len(episodes[i].frame_ids)]).ts

\* An observe that sees a key different from the open episode's.
KeyChangeStep ==
    /\ current_episode_id # NoEpisode
    /\ Len(episodes') = Len(episodes) + 1

\* Events (0, Chrome), (10, Chrome), (20, Editor) of one source and nothing else.
ScenarioA ==
    /\ log[FirstSource] = <<[op |-> "observe", ts |-> 0, key |-> "Chrome", frame_id |-> 1],
                     [op |-> "observe", ts |-> 10, key |-> "Chrome", frame_id |-> 2],
                     [op |-> "observe", ts |-> 20, key |-> "Editor", frame_id |-> 3]>>
    /\ \A s \in Sources \ {FirstSource} : log[s] = <<>>

ScenarioAResult ==
    /\ episodes = <<[episode_id |-> 1, app_name |-> "Chrome", frame_ids |-> <<1, 2>>,
                     start_ts |-> 0, end_ts |-> 10, frame_count |-> 2],
                    [episode_id |-> 2, app_name |-> "Editor", frame_ids |-> <<3>>,
                     start_ts |-> 20, end_ts |-> 20, frame_count |-> 1]>>
    /\ status = <<"key-change", "open">>

OutOfOrderCall ==
    LET c == last_call'
    IN  \/ /\ c.op = "observe"
           /\ c.ts < last_ts[c.target]
        \/ /\ c.op = "createFrame"
           /\ FindEpisode(episodes, c.target) # {}
           /\ FindFrame(frames, c.frame_id) = {}
           /\ \E i \in 1..Len(frames) :
                  frames[i].episode_id = c.target /\ c.ts < frames[i].ts

\* C8: a call whose timestamp is lower than the timestamp of an earlier event
\* of the same stream is rejected with OutOfOrderEvent and changes no episode
\* and no frame.
C8_OutOfOrderRejected ==
    [][OutOfOrderCall =>
           /\ last_call'.result = "OutOfOrderEvent"
           /\ episodes' = episodes
           /\ frames' = frames
      ]_vars

\* ---------------------------------------------------------------------------
\* C9
\* ---------------------------------------------------------------------------

\* C9: once an episode is closed it stays closed the way it was, and no later
\* call changes its end_ts, its frame_ids or its frame_count.
C9_ClosedIsFrozen ==
    [][\A i \in EpisodeIndexes :
           status[i] # "open" =>
               /\ status'[i] = status[i]
               /\ episodes'[i].end_ts = episodes[i].end_ts
               /\ episodes'[i].frame_ids = episodes[i].frame_ids
               /\ episodes'[i].frame_count = episodes[i].frame_count
      ]_vars

\* ---------------------------------------------------------------------------
\* C10
\* ---------------------------------------------------------------------------

\* This step is a close-source call.
CloseSourceStep == \E s \in Sources : log'[s] = Append(log[s], [op |-> "close"])

\* This step is an observe call that was accepted.
AcceptedObserveStep == \E s \in Sources : Len(Events(s)') = Len(Events(s)) + 1

SomeOpen == \E i \in EpisodeIndexes : status[i] = "open"

\* C10: close-source freezes the end_ts of the open episode at its last
\* observed timestamp and leaves no open episode; an observe never takes the
\* segmenter from having an open episode to having none, an accepted observe
\* leaves the episode it returns open, and the first accepted observe after
\* close-source opens a new episode.
C10_CloseSource ==
    [][/\ CloseSourceStep =>
            LET cur == current_episode_id
            IN  /\ status[cur] = "open"
                /\ episodes'[cur].end_ts = episodes[cur].end_ts
                /\ episodes'[cur].end_ts = LastFrameTs(cur)
                /\ status'[cur] = "close-source"
                /\ ~SomeOpen'
                /\ current_episode_id' = NoEpisode
       /\ (last_call'.op = "observe" /\ SomeOpen) => SomeOpen'
       /\ AcceptedObserveStep =>
            /\ status'[last_call'.episode_id] = "open"
            /\ ~SomeOpen =>
                  /\ last_call'.episode_id = Len(episodes) + 1
                  /\ Len(episodes') = Len(episodes) + 1
      ]_vars

\* A source was closed and the next observe has opened a new episode.
C10_Witness ==
    /\ Len(episodes) >= 2
    /\ status[1] = "close-source"
    /\ status[Len(episodes)] = "open"
    /\ current_episode_id = Len(episodes)

\* ---------------------------------------------------------------------------
\* C11
\* ---------------------------------------------------------------------------

\* C11: a write interrupted by a failure at any step leaves the repository as
\* if the whole write had happened or none of it: in every reachable state
\* every stored frame is in the frame_ids of the episode it names.
C11_NoFrameOutsideItsEpisode ==
    \A n \in 1..Len(frames) :
        \E i \in FindEpisode(episodes, frames[n].episode_id) :
            frames[n].frame_id \in Range(episodes[i].frame_ids)

\* ---------------------------------------------------------------------------
\* C12
\* ---------------------------------------------------------------------------

\* The time ranges of two episodes of one source do not overlap.
NoOverlap(s) ==
    \A i \in EpisodeIndexes, j \in EpisodeIndexes :
        (i < j /\ owner[i] = s /\ owner[j] = s)
            => episodes[i].end_ts <= episodes[j].start_ts

\* The write of this step is the write of a request in slot c.
WriteStep(c) == inflight[c].pc = "inside" /\ inflight'[c].pc = "idle"

C13_NoOverlap == \A s \in Sources : NoOverlap(s)

\* ---------------------------------------------------------------------------
\* C14
\* ---------------------------------------------------------------------------

\* The episode a stored frame names exists and holds the frame's id, and no
\* other episode holds it.
InExactlyOneEpisode(frame) ==
    /\ FindEpisode(episodes, frame.episode_id) # {}
    /\ Holders(frame.frame_id) = FindEpisode(episodes, frame.episode_id)
    /\ Cardinality(Holders(frame.frame_id)) = 1

\* This step is a frame creation that names an episode that is not stored.
NamesMissingEpisode ==
    /\ last_call'.op = "createFrame"
    /\ FindEpisode(episodes, last_call'.target) = {}

\* C14: in every reachable state every stored frame belongs to exactly one
\* episode: the episode it names exists and holds its id, and no other episode
\* holds it; a frame creation that names a missing episode is answered 404
\* and stores nothing.
C14_FrameInExactlyOneEpisode ==
    [][/\ \A n \in 1..Len(frames') : InExactlyOneEpisode(frames[n])'
       /\ NamesMissingEpisode =>
              /\ last_call'.result = "404"
              /\ frames' = frames
              /\ episodes' = episodes
      ]_vars

\* ---------------------------------------------------------------------------
\* C15
\* ---------------------------------------------------------------------------

\* The frames stored by observe, that is by a screenshot upload: they carry an
\* app_name.
Screenshots == {n \in 1..Len(frames) : frames[n].app_name # NoAppName}

\* C15: every frame appended by a screenshot upload has the grouping key of
\* the episode that owns it, the stored episode that the frame names and that
\* holds the frame's id, also when app-change notifications arrive between
\* screenshots.
C15_FrameKeyIsEpisodeKey ==
    \A n \in Screenshots :
        /\ FindEpisode(episodes, frames[n].episode_id) # {}
        /\ \A i \in FindEpisode(episodes, frames[n].episode_id) :
              /\ episodes[i].app_name = frames[n].app_name
              /\ frames[n].frame_id \in Range(episodes[i].frame_ids)
        /\ \A i \in Holders(frames[n].frame_id) :
              episodes[i].app_name = frames[n].app_name

\* A screenshot, then a notification of a change to another application, then
\* a screenshot that still carries the first application's name.
C15_Witness ==
    \E j \in 1..(Len(log[FirstSource]) - 2) :
        LET a == log[FirstSource][j]
            b == log[FirstSource][j + 1]
            c == log[FirstSource][j + 2]
        IN  /\ a.op = "observe" /\ b.op = "activity" /\ c.op = "observe"
            /\ a.key # b.key
            /\ c.key = a.key

\* ---------------------------------------------------------------------------
\* C16
\* ---------------------------------------------------------------------------

\* A rerank call has run.
Reranked == retrieval.op = "rerank" /\ retrieval.done

\* The capability failed in this call: it raised, timed out, answered with a
\* non-success status, or its answer is malformed.
CapabilityFailed ==
    \/ retrieval.behaviour.kind \in Failures
    \/ \E i \in 1..Len(retrieval.response.results) :
           retrieval.response.results[i].index >= Len(retrieval.documents)
    \/ \E i \in 1..Len(retrieval.response.results),
             j \in 1..Len(retrieval.response.results) :
           i # j /\ retrieval.response.results[i].index
                        = retrieval.response.results[j].index

\* C16: if the Reranking Capability fails in any way, rerank does not fail:
\* its output is the first final_limit candidates of the Similarity Ranker's
\* order, in that order.
C16_RerankFallback ==
    (Reranked /\ CapabilityFailed) =>
        LET ranked == retrieval.ranked_candidates
            n      == IF retrieval.final_limit <= Len(ranked)
                      THEN retrieval.final_limit ELSE Len(ranked)
        IN  /\ ~retrieval.reranked
            /\ retrieval.output = [i \in 1..n |-> ranked[i]]

\* The capability timed out with more candidates ranked than the limit asks
\* for, and the output is the first final_limit of them.
C16_Witness ==
    /\ Reranked
    /\ retrieval.behaviour.kind = "timeout"
    /\ retrieval.final_limit = 2
    /\ Len(retrieval.ranked_candidates) = 5
    /\ retrieval.output = <<1, 2>>

\* ---------------------------------------------------------------------------
\* C17
\* ---------------------------------------------------------------------------

\* The relevance score the capability gave the candidate, which was sent as
\* document number candidate - 1.
Relevance(candidate) ==
    LET results == retrieval.response.results
        i == CHOOSE j \in 1..Len(results) : results[j].index = candidate - 1
    IN  results[i].relevance_score

\* Similarity order A, B, C, all three sent, that the capability reorders
\* into C, A, B.
ScenarioD ==
    /\ retrieval.ranked_candidates = <<1, 2, 3>>
    /\ Len(retrieval.documents) = 3
    /\ retrieval.behaviour = [kind |-> "ok", order |-> "last first",
                              listing |-> "descending"]

\* C17: when the Reranking Capability succeeds, the output of rerank is the
\* candidates the capability returned, in the order of its relevance scores,
\* truncated to final_limit; every item is one of the candidates sent and
\* none comes twice; for similarity order A, B, C and reranker order C, A, B
\* the output is C, A, B truncated to final_limit.
C17_RerankOrder ==
    (Reranked /\ ~CapabilityFailed) =>
        LET out     == retrieval.output
            results == retrieval.response.results
            limit   == retrieval.final_limit
        IN  /\ retrieval.reranked
            /\ Len(out) = IF limit <= Len(results) THEN limit ELSE Len(results)
            /\ \A i \in 1..Len(out) :
                  /\ out[i] \in 1..Len(retrieval.documents)
                  /\ retrieval.documents[out[i]] = Document(retrieval.ranked_candidates[out[i]])
                  /\ \E j \in 1..Len(results) : results[j].index = out[i] - 1
            /\ \A i \in 1..Len(out), j \in 1..Len(out) : out[i] = out[j] => i = j
            /\ \A i \in 1..Len(out), j \in 1..Len(out) :
                  i < j => Relevance(out[i]) > Relevance(out[j])
            /\ \A i \in 1..Len(out), j \in 1..Len(results) :
                  results[j].relevance_score > Relevance(out[i])
                      => \E h \in 1..Len(out) : out[h] = results[j].index + 1
            /\ ScenarioD =>
                  out = IF limit >= 3 THEN <<3, 1, 2>> ELSE <<3, 1>>

\* Scenario D, with the capability listing its results by ascending relevance
\* and a final_limit of 2.
C17_Witness ==
    /\ Reranked
    /\ retrieval.ranked_candidates = <<1, 2, 3>>
    /\ retrieval.behaviour = [kind |-> "ok", order |-> "last first",
                              listing |-> "ascending"]
    /\ retrieval.final_limit = 2
    /\ retrieval.output = <<3, 1>>

\* ---------------------------------------------------------------------------
\* C18
\* ---------------------------------------------------------------------------

\* C18: the number of candidates sent to the Reranking Capability in one call
\* is min(final_limit * 2, 20), or the number of candidates if that is
\* smaller, and so never exceeds 20; the candidates sent are the top ones of
\* the Similarity Ranker's order.
C18_RerankCandidatesCapped ==
    Reranked =>
        LET sent   == Len(retrieval.documents)
            ranked == retrieval.ranked_candidates
            wanted == IF retrieval.final_limit * 2 <= 20
                      THEN retrieval.final_limit * 2 ELSE 20
        IN  /\ sent = IF wanted <= Len(ranked) THEN wanted ELSE Len(ranked)
            /\ sent <= 20
            /\ \A i \in 1..sent : retrieval.documents[i] = Document(ranked[i])

\* More than 20 candidates are ranked and twice the limit is more than 20:
\* 20 are sent.
C18_Witness ==
    /\ Reranked
    /\ Len(retrieval.ranked_candidates) > 20
    /\ retrieval.final_limit * 2 > 20
    /\ Len(retrieval.documents) = 20

\* ---------------------------------------------------------------------------
\* C19
\* ---------------------------------------------------------------------------

\* The candidates of a list in another order.
Reordered(list, p) == [i \in 1..Len(list) |-> list[p[i]]]

\* The scores and timestamps of a ranked list, in order.
ScoresAndTimes(ranked) ==
    [i \in 1..Len(ranked) |-> <<ranked[i].score, ranked[i].candidate.ts>>]

\* C19: the output of rank is a permutation of the input candidates, each with
\* its similarity to the query, sorted by score descending, and among equal
\* scores the more recent timestamp comes first; the same candidates give the
\* same order of scores and timestamps in whatever order they are passed.
C19_RankSorted ==
    (retrieval.op = "rank" /\ retrieval.done) =>
        LET out == retrieval.output
            c   == retrieval.candidates
            q   == retrieval.query_vector
        IN  /\ Len(out) = Len(c)
            /\ {out[i].candidate : i \in 1..Len(out)} = Range(c)
            /\ \A i \in 1..Len(out) :
                  out[i].score = CosineSimilarity(q, out[i].candidate.embedding)
            /\ \A i \in 1..Len(out), j \in 1..Len(out) :
                  i < j =>
                      /\ ~ScoreGreater(out[j].score, out[i].score)
                      /\ out[i].score = out[j].score
                            => out[i].candidate.ts >= out[j].candidate.ts
            /\ out = Rank(q, c)
            /\ \A p \in Permutations(1..Len(c)) :
                  ScoresAndTimes(Rank(q, Reordered(c, p))) = ScoresAndTimes(out)

\* Two candidates with equal scores were passed older first and came out more
\* recent first, behind a candidate with a higher score that was passed last.
C19_Witness ==
    /\ retrieval.op = "rank"
    /\ retrieval.done
    /\ Len(retrieval.candidates) = 3
    /\ retrieval.candidates[1].ts < retrieval.candidates[2].ts
    /\ retrieval.output[1].candidate.id = 3
    /\ retrieval.output[2].candidate.id = 2
    /\ retrieval.output[3].candidate.id = 1
    /\ retrieval.output[2].score = retrieval.output[3].score
    /\ ScoreGreater(retrieval.output[1].score, retrieval.output[2].score)

\* ---------------------------------------------------------------------------
\* C20
\* ---------------------------------------------------------------------------

\* The scores 1 and -1.
One == [sgn |-> 1, num |-> 1, den |-> 1]

MinusOne == [sgn |-> -1, num |-> 1, den |-> 1]

IsZeroVector(v) == \A i \in DOMAIN v : v[i] = 0

Found == retrieval.op = "find_relevant" /\ retrieval.done

\* C21: whenever the query vector is compared with a stored vector, the two
\* have the same number of dimensions, for episode candidates and for frame
\* candidates alike.
C21_SameDimensionality ==
    Found => \A pair \in retrieval.compared : pair.query = pair.stored

\* ---------------------------------------------------------------------------
\* C22
\* ---------------------------------------------------------------------------

\* POST /api/query has answered with results.
Answered == retrieval.op = "query" /\ retrieval.done /\ retrieval.response.status = 200

\* The stored episodes have scores 0.95, 0.80 and 0.92, in that order.
ScenarioB ==
    /\ Len(retrieval.collection) = 3
    /\ \A i \in 1..3 : retrieval.collection[i].score = <<95, 80, 92>>[i]

\* C22: when a query supplies min_score, every result of the response has a
\* score greater than or equal to min_score and the results are in ranked
\* order, on every path that produces a response; for scores 0.95, 0.80,
\* 0.92 and min_score 0.9 the results have scores 0.95, 0.92.
C22_MinScoreFilters ==
    (Answered /\ retrieval.min_score # Undefined) =>
        LET results == retrieval.response.results
        IN  /\ \A i \in 1..Len(results) :
                  /\ results[i].score # Null
                  /\ results[i].score >= retrieval.min_score
            /\ \A i \in 1..Len(results), j \in 1..Len(results) :
                  i < j => results[i].score >= results[j].score
            /\ (ScenarioB /\ retrieval.min_score = 90 /\ retrieval.limit \in {Undefined, MaxQueryLimit})
                  => [i \in 1..Len(results) |-> results[i].score] = <<95, 92>>

\* ---------------------------------------------------------------------------
\* C23
\* ---------------------------------------------------------------------------

\* The candidates are at most limit of the eligible documents, and no
\* eligible document that is not a candidate is more recent than a candidate.
MostRecent(candidates, eligible, field, limit) ==
    /\ Len(candidates) <= limit
    /\ \A i \in 1..Len(candidates) : \E j \in 1..Len(eligible) : eligible[j] = candidates[i]
    /\ \A j \in 1..Len(eligible) :
          (\A i \in 1..Len(candidates) : candidates[i] # eligible[j])
              => \A i \in 1..Len(candidates) : eligible[j][field] <= candidates[i][field]

\* The candidate fetch of llm_runner.py reads at most 50 episodes and 30
\* frames, all with an embedding, the most recent ones.
FetchIsBounded ==
    Found =>
        /\ MostRecent(retrieval.episodes_with_embeddings,
                      Find(retrieval.episodes_collection, {"text_embedding"}),
                      "start_ts", 50)
        /\ MostRecent(retrieval.frames_with_embeddings,
                      Find(retrieval.frames_collection, {"image_embedding"}),
                      "ts", 30)

\* More episodes and more frames have an embedding than are fetched.
FetchIsBounded_Witness ==
    /\ Found
    /\ Len(retrieval.episodes_collection) = 52
    /\ Len(retrieval.episodes_with_embeddings) = 50
    /\ retrieval.episodes_with_embeddings[1].start_ts = 520
    /\ Len(retrieval.frames_with_embeddings) = 30

\* POST /api/query reads at most numCandidates episodes, all with an
\* embedding, the most recent ones; on the text search path, the most recent
\* ones that match the query.
QueryIsBounded ==
    (retrieval.op = "query" /\ retrieval.done) =>
        MostRecent(retrieval.candidates,
                   IF retrieval.response.warning = "none"
                   THEN Indexed(retrieval.collection)
                   ELSE TextMatches(retrieval.collection, retrieval.query),
                   "start_ts",
                   ParsedLimit(retrieval.limit) * NumCandidatesFactor)

\* C23: the candidate set read for one query holds at most N episodes and at
\* most M frames whatever the size of the corpus, every candidate has a
\* non-null embedding, and the candidates are the most recent such entities
\* by timestamp.
C23_CandidatesBoundedAndRecent == FetchIsBounded /\ QueryIsBounded

\* ---------------------------------------------------------------------------
\* C24
\* ---------------------------------------------------------------------------

\* POST /api/query has handled a request that passed validation.
Handled ==
    /\ retrieval.op = "query"
    /\ retrieval.done
    /\ ValidQuery(retrieval.query, retrieval.limit, retrieval.min_score)

\* C24: when embedding the query text fails, the query fails: the response is
\* the embedding error, carries no results, and has no warning that would
\* mark it as degraded.
C24_EmbeddingFailureFailsQuery ==
    (Handled /\ retrieval.embed # "ok") =>
        /\ retrieval.response.status = 500
        /\ retrieval.response.error = "Failed to generate query embedding"
        /\ retrieval.response.results = <<>>
        /\ retrieval.response.count = Null
        /\ retrieval.response.warning = "none"

\* The embedding call is rate limited for a query that the text search would
\* have answered with a result.
C24_Witness ==
    /\ Handled
    /\ retrieval.embed = "Voyage API error: 429"
    /\ retrieval.vector_search = "fails"
    /\ Len(TextSearch(retrieval.collection, retrieval.query, 1)) = 1
    /\ retrieval.response.status = 500

\* ---------------------------------------------------------------------------
\* C25
\* ---------------------------------------------------------------------------

\* The text holds the keyword, in either case.
Contains(text, keyword) ==
    \E off \in 0..(Len(text) - Len(keyword)) :
        \A i \in 1..Len(keyword) : Lower(keyword[i]) = Lower(text[off + i])

\* C25: when the vector search fails after the query was embedded, the query
\* still succeeds: the response holds at most limit episodes whose title or
\* summary holds the query text, and carries the warning; a response carries
\* the warning only when it was produced by this fallback.
C25_FallbackAnswers ==
    Handled =>
        /\ (retrieval.embed = "ok" /\ retrieval.vector_search = "fails") =>
              /\ retrieval.response.status = 200
              /\ retrieval.response.warning # "none"
              /\ Len(retrieval.response.results) <= ParsedLimit(retrieval.limit)
              /\ \A i \in 1..Len(retrieval.response.results) :
                    \/ Contains(retrieval.response.results[i].title, retrieval.query)
                    \/ Contains(retrieval.response.results[i].summary_text, retrieval.query)
        /\ retrieval.response.warning # "none" =>
              retrieval.embed = "ok" /\ retrieval.vector_search = "fails"

\* ---------------------------------------------------------------------------
\* C26
\* ---------------------------------------------------------------------------

\* get_relevant_context has run and its reads succeeded.
Assembled == retrieval.op = "assemble" /\ retrieval.done /\ retrieval.outcome = "ok"

\* The formatted context is the no-relevant-context sentinel.
IsSentinel(context) ==
    /\ Len(context) = 1
    /\ context[1].kind = "text"
    /\ context[1].text \in {"No recent activity data available.", "No relevant context found."}

RECURSIVE EntriesOf(_, _, _)
EntriesOf(context, kind, n) ==
    IF n = 0 THEN <<>>
    ELSE IF context[n].kind = kind
    THEN Append(EntriesOf(context, kind, n - 1), context[n].id)
    ELSE EntriesOf(context, kind, n - 1)

IsPrefix(list, ranked) ==
    Len(list) <= Len(ranked) /\ \A i \in 1..Len(list) : list[i] = ranked[i]

\* C27: the formatted context holds at most episode_limit episodes and at
\* most frame_limit frames, each list a prefix of its ranked input in
\* unchanged order, as many as the limit allows, and every episode entry
\* comes before every frame entry.
C27_TruncatedEpisodesFirst ==
    Assembled =>
        LET context  == retrieval.formatted_context
            episodes_out == EntriesOf(context, "episode", Len(context))
            frames_out   == EntriesOf(context, "frame", Len(context))
            episode_limit == IF retrieval.version = "recent" THEN 5 ELSE retrieval.limit
            frame_limit   == retrieval.limit
        IN  /\ Len(episodes_out) <= episode_limit
            /\ Len(frames_out) <= frame_limit
            /\ IsPrefix(episodes_out, retrieval.ranked_episodes)
            /\ IsPrefix(frames_out, retrieval.ranked_frames)
            /\ Len(episodes_out) = episode_limit
                  \/ Len(episodes_out) = Len(retrieval.ranked_episodes)
            /\ Len(frames_out) = frame_limit \/ Len(frames_out) = Len(retrieval.ranked_frames)
            /\ \A i \in 1..Len(context), j \in 1..Len(context) :
                  (context[i].kind = "episode" /\ context[j].kind = "frame") => i < j

\* Six episodes and three frames are ranked, the limits are 5 and 2, and the
\* context lists episodes 1 to 5 and then frames 1 and 2.
C27_Witness ==
    /\ Assembled
    /\ retrieval.version = "recent"
    /\ Len(retrieval.ranked_episodes) = 6
    /\ Len(retrieval.ranked_frames) = 3
    /\ retrieval.limit = 2
    /\ Len(retrieval.formatted_context) = 9
    /\ retrieval.formatted_context[6].id = 5
    /\ retrieval.formatted_context[9].id = 2

\* ---------------------------------------------------------------------------
\* C28
\* ---------------------------------------------------------------------------

\* No two stored episodes have the same episode_id and no two stored frames
\* the same frame_id.
IdsUnique ==
    /\ \A i \in 1..Len(episodes), j \in 1..Len(episodes) :
          episodes[i].episode_id = episodes[j].episode_id => i = j
    /\ \A i \in 1..Len(frames), j \in 1..Len(frames) :
          frames[i].frame_id = frames[j].frame_id => i = j

\* C28: after any interleaving of creation requests, at most one stored
\* episode has a given episode_id and at most one stored frame a given
\* frame_id; a creation answered with a conflict leaves the stored documents
\* unchanged.
C28_IdsUniqueUnderConcurrency ==
    [][/\ IdsUnique'
       /\ (last_call' # last_call /\ last_call'.result = "409")
             => UNCHANGED <<episodes, frames>>]_vars

\* ---------------------------------------------------------------------------
\* C29
\* ---------------------------------------------------------------------------

\* C29: every successful query response has count equal to the number of
\* entries in results, and the number of results never exceeds the requested
\* limit, which is at most 100, on the vector search path and on the fallback
\* path.
C29_CountAndLimit ==
    Answered =>
        /\ retrieval.response.count = Len(retrieval.response.results)
        /\ Len(retrieval.response.results) <=
              (IF retrieval.limit = Undefined THEN 10 ELSE retrieval.limit)
        /\ retrieval.limit = Undefined \/ retrieval.limit <= 100

\* The fallback finds three matching episodes and the limit is 2.
C29_Witness ==
    /\ Answered
    /\ retrieval.response.warning # "none"
    /\ retrieval.limit = 2
    /\ Len(TextMatches(retrieval.collection, retrieval.query)) = 3
    /\ retrieval.response.count = 2

\* ---------------------------------------------------------------------------
\* C30
\* ---------------------------------------------------------------------------

\* The creation request in slot c finishes in this step.
Finishes(c, kind) ==
    /\ inflight[c].pc = "found none"
    /\ inflight[c].kind = kind
    /\ inflight'[c].pc = "idle"

\* C30: a failure of the Embedding Capability while an episode or frame is
\* being created never prevents the entity from being stored: the creation
\* succeeds and the entity is stored with a null embedding.
C30_StoredWithoutEmbedding ==
    [][\A c \in Slots :
          /\ (Finishes(c, "episode") /\ ~inflight[c].embed_ok) =>
                /\ Len(episodes') = Len(episodes) + 1
                /\ episodes'[Len(episodes')].episode_id = inflight[c].id
                /\ episodes'[Len(episodes')].text_embedding = "null"
                /\ last_call'.result = "201"
          /\ Finishes(c, "frame") =>
                /\ Len(frames') = Len(frames) + 1
                /\ frames'[Len(frames')].frame_id = inflight[c].id
                /\ frames'[Len(frames')].image_embedding = "null"
                /\ last_call'.result = "201"]_vars

\* An episode created while embedText failed is stored with a null
\* text_embedding, and a frame has been stored in it.
C30_Witness ==
    /\ Len(episodes) >= 1
    /\ episodes[1].text_embedding = "null"
    /\ last_call.op = "createFrame"
    /\ last_call.result = "201"
    /\ Len(frames) >= 1
    /\ frames[1].image_embedding = "null"

\* ---------------------------------------------------------------------------
\* C31
\* ---------------------------------------------------------------------------

\* The search ran with the episode read succeeding and the frame read failing.
FrameReadFailed ==
    /\ Found
    /\ retrieval.episodes_read = "ok"
    /\ retrieval.frames_read = "fails"

OpenEndTsIsLastFrameTs ==
    \A i \in EpisodeIndexes :
        (status[i] = "open" /\ episodes[i].frame_ids # <<>>)
            => episodes[i].end_ts = LastFrameTs(i)

\* No stored episode ends before it starts.
StartsBeforeItEnds == \A i \in EpisodeIndexes : episodes[i].start_ts <= episodes[i].end_ts

\* C32: while an episode is open, its end_ts equals the timestamp of the last
\* frame appended to it, and every stored episode satisfies start_ts <= end_ts.
C32_EndTsIsLastFrameTs == OpenEndTsIsLastFrameTs /\ StartsBeforeItEnds

\* ---------------------------------------------------------------------------
\* C33
\* ---------------------------------------------------------------------------

\* The frame_ids of an episode are in the order of the stored frames'
\* timestamps.
InTemporalOrder(frame_ids) ==
    \A i \in 1..Len(frame_ids), j \in 1..Len(frame_ids) :
        (i < j /\ FindFrame(frames, frame_ids[i]) # {} /\ FindFrame(frames, frame_ids[j]) # {})
            => FrameDoc(frame_ids[i]).ts <= FrameDoc(frame_ids[j]).ts

\* No frame id is in the list twice.
NoDuplicates(frame_ids) ==
    \A i \in 1..Len(frame_ids), j \in 1..Len(frame_ids) :
        i # j => frame_ids[i] # frame_ids[j]

\* C33: in every reachable state, the frame_ids list of every episode is in
\* non-decreasing order of the frames' capture timestamps and contains no
\* frame id twice.
C33_FrameIdsOrderedAndUnique ==
    \A e \in EpisodeIndexes :
        InTemporalOrder(episodes[e].frame_ids) /\ NoDuplicates(episodes[e].frame_ids)

\* The second half of C33 alone.
FrameIdsUnique == \A e \in EpisodeIndexes : NoDuplicates(episodes[e].frame_ids)

\* ---------------------------------------------------------------------------
\* C34
\* ---------------------------------------------------------------------------

\* The episode has a frame, and it starts at the timestamp of its first frame.
StartsAtFirstFrame(e) ==
    /\ e.frame_ids # <<>>
    /\ FindFrame(frames, e.frame_ids[1]) # {}
    /\ e.start_ts = FrameDoc(e.frame_ids[1]).ts

\* C34: every stored episode has at least one frame and its start_ts equals
\* the timestamp of its first frame.
C34_StartsAtFirstFrame == \A i \in EpisodeIndexes : StartsAtFirstFrame(episodes[i])

\* ---------------------------------------------------------------------------
\* C35
\* ---------------------------------------------------------------------------

\* The collectActivity of call c returns in this step.
Returns(c) ==
    /\ collecting[c] = [pc |-> "getActiveWindow"]
    /\ collecting'[c] # collecting[c]

\* The call c starts to post in this step.
StartsPost(c) == collecting[c].pc # "fetch" /\ collecting'[c].pc = "fetch"

\* No two consecutive entries have the same appName.
NoRepeat(activityHistory) ==
    \A i \in 1..(Len(activityHistory) - 1) :
        activityHistory[i].appName # activityHistory[i + 1].appName

InProgress == {c \in TrackerCalls : collecting[c].pc = "getActiveWindow"}

\* A call of collectActivity returned in this step while the collection of
\* another call was and stays in progress.
ReturnsDuringCollection ==
    /\ InProgress # {}
    /\ InProgress' = InProgress
    /\ collected' # collected

\* C36: at most one collectActivity is in progress at any time; a call made
\* while another is in progress returns null without reading the active
\* window or changing activityHistory; and isCollecting is false again when
\* a call that started a collection completes, also when reading the window
\* throws.
C36_OneCollectionAtATime ==
    [][/\ Cardinality(InProgress') <= 1
       /\ ReturnsDuringCollection
             => /\ collected'.activityData = NoData
                /\ ~collected'.read
                /\ tracker' = tracker
                /\ collected'.call \notin InProgress'
       /\ \A c \in TrackerCalls : Returns(c) => ~tracker'.isCollecting
       /\ tracker'.isCollecting <=> InProgress' # {}]_vars

\* A call was turned away while the collection of another call is in progress.
C36_Witness ==
    /\ InProgress # {}
    /\ collected.call \in TrackerCalls \ InProgress
    /\ ~collected.read

\* ---------------------------------------------------------------------------
\* C37
\* ---------------------------------------------------------------------------

\* The application in front is the last one recorded in activityHistory.
FrontIsRecorded ==
    /\ tracker.activityHistory # <<>>
    /\ front_app = LastAppName(tracker.activityHistory)

\* The server last received the app name that activityHistory ends with.
ServerHasLastApp ==
    /\ tracker.activityHistory # <<>>
    /\ server_app_name = LastAppName(tracker.activityHistory)

\* C37: when the same app stays in front, the last app name the server
\* received eventually equals the last app name recorded in activityHistory,
\* also after a post that failed.
C37_FailedPostIsSentAgain == <>[]FrontIsRecorded => <>[]ServerHasLastApp

\* ---------------------------------------------------------------------------
\* C38
\* ---------------------------------------------------------------------------

\* The positions of the messages of a request on a channel.
Messages(r, channel) ==
    {i \in 1..Len(ipc_messages) :
        ipc_messages[i].request = r /\ ipc_messages[i].channel = channel}

\* The positions of the 'screenshot-saved' messages that report success
\* for the file of request r.
SavedOk(r) ==
    {i \in Messages(r, "screenshot-saved") :
        ipc_messages[i].success /\ ipc_messages[i].filePath = r}

\* C38: the 'screenshot-saved' success message for a file is sent before its
\* upload starts; once it is sent, no failure message follows for that
\* capture, whatever the upload does; and 'screenshot-uploaded' for a file is
\* sent only after 'screenshot-saved' with success for that same file.
C38_UploadNeverFailsASave ==
    \A r \in CaptureRequests :
        /\ capturing[r].pc = "uploadScreenshotToVercel" => SavedOk(r) # {}
        /\ \A i \in SavedOk(r), j \in Messages(r, "screenshot-saved") :
               j > i => ipc_messages[j].success
        /\ \A j \in Messages(r, "screenshot-uploaded") :
               /\ ipc_messages[j].filePath = r
               /\ \E i \in SavedOk(r) : i < j

\* One capture was saved and its upload failed; the upload of another one
\* was confirmed.
C38_Witness ==
    \E r, q \in CaptureRequests :
        /\ capturing[r] = [pc |-> "done"]
        /\ SavedOk(r) # {}
        /\ Messages(r, "screenshot-uploaded") = {}
        /\ Messages(q, "screenshot-uploaded") # {}

\* ---------------------------------------------------------------------------
\* C39
\* ---------------------------------------------------------------------------

\* C39: each capture request that onCapture has handled resulted in exactly
\* one 'screenshot-saved' message.
C39_ExactlyOneSavedMessage ==
    \A r \in CaptureRequests :
        capturing[r].pc \in {"done", "uploadScreenshotToVercel"}
            => Cardinality(Messages(r, "screenshot-saved")) = 1

\* Every handled capture request resulted in at least one 'screenshot-saved'
\* message and in at most one that reports success.
AtLeastOneSavedMessage ==
    \A r \in CaptureRequests :
        capturing[r].pc \in {"done", "uploadScreenshotToVercel"}
            => /\ Messages(r, "screenshot-saved") # {}
               /\ Cardinality(SavedOk(r)) <= 1

\* ---------------------------------------------------------------------------
\* C40
\* ---------------------------------------------------------------------------

\* The clients that are connected and were not closed.
Connected == {k \in MongoClients : clients[k] = "connected"}

\* C40: at most one MongoClient is created and connected until closeDB is
\* called, and every caller of connectDB receives the same Db instance.
C40_OneConnection ==
    /\ Cardinality(Connected) <= 1
    /\ Cardinality(received) <= 1

====
